---- MODULE Spec2Model ----
(***************************************************************************)
(* git-inquisitor: the cache-or-collect workflow of GitDataCollector       *)
(* (internal/collector/collector.go) and the concurrent per-file blame     *)
(* pool of collectBlameDataByFile, over the gitutil helpers                *)
(* (pkg/gitutil/gitutil.go).                                               *)
(*                                                                         *)
(* Strings that the code splits or trims are sequences of one-character    *)
(* strings; a commit hash is a positive integer and 0 is the empty / zero  *)
(* hash; a time is a positive integer and 0 is the zero time.              *)
(***************************************************************************)
EXTENDS Integers, Sequences, FiniteSets, TLC

\* ------------------------------------------------------------------ bounds
MaxCommits == 2    \* commits on the branch; HEAD is one of 1..MaxCommits
MaxFiles == 2      \* tracked non-binary paths at HEAD
MaxCPU == 2        \* largest value of runtime.NumCPU()
MaxCollects == 2   \* calls of Collect in one behaviour
MaxTree == 2       \* files in the tree of a commit handed to GetCommitStats
MaxBlame == 3      \* lines of a blame result handed to GetBlameForFile
MaxLog == 4        \* commits of a commit graph handed to IterateCommits
MaxCalls == 4      \* calls of the cache operations in one behaviour

\* ----------------------------------------------------------------- helpers
EmptyMap == << >>

Put(m, k, v) == [x \in (DOMAIN m) \cup {k} |-> IF x = k THEN v ELSE m[x]]

RECURSIVE SumOver(_, _)
SumOver(f, S) ==
  IF S = {} THEN 0
  ELSE LET x == CHOOSE y \in S : TRUE IN f[x] + SumOver(f, S \ {x})

\* strings.Split(s, "<")[0]: the part of s before its first "<"
RECURSIVE BeforeBracket(_)
BeforeBracket(s) ==
  IF s = << >> \/ Head(s) = "<" THEN << >>
  ELSE <<Head(s)>> \o BeforeBracket(Tail(s))

\* strings.TrimSpace
RECURSIVE TrimLeft(_)
TrimLeft(s) == IF s # << >> /\ Head(s) = " " THEN TrimLeft(Tail(s)) ELSE s

RECURSIVE TrimRight(_)
TrimRight(s) ==
  IF s # << >> /\ s[Len(s)] = " " THEN TrimRight(SubSeq(s, 1, Len(s) - 1)) ELSE s

TrimSpace(s) == TrimRight(TrimLeft(s))

\* the display name the code keys contributors by
DisplayName(raw) == TrimSpace(BeforeBracket(raw))

\* ------------------------------------------------------------- repository
\* The branch: commit i has hash i and committer time i; its parent is i-1.
CommitterNameOf(i) == IF i % 2 = 1 THEN <<"a">> ELSE <<"b", " ">>
CommitterEmailOf(i) == IF i % 4 = 3 THEN "y" ELSE "x"

CommitObject(i) ==
  [Hash |-> i, Name |-> CommitterNameOf(i), Email |-> CommitterEmailOf(i),
   When |-> i, NumParents |-> IF i = 1 THEN 0 ELSE 1]

\* what git.Blame returns for tracked path p when it succeeds: the blamed lines
Line(author, date, hash) == [Author |-> author, Date |-> date, Hash |-> hash]

BlameLinesOf(p) ==
  CASE p % 3 = 1 ->
         <<Line(<<"a", " ", "<", "x", ">">>, 1, 1), Line(<<"c">>, 2, 2), Line(<<"a">>, 2, 2)>>
    [] p % 3 = 2 ->
         <<Line(<<"b">>, 2, 2), Line(<< >>, 1, 0), Line(<<"a">>, 1, 1)>>
    [] OTHER -> <<Line(<< >>, 1, 1)>>

\* a blame result without an attributable line: of an empty file, or of a
\* file whose only line has no author
BlankLinesOf(p) == IF p % 2 = 1 THEN << >> ELSE <<Line(<< >>, 1, 1)>>

\* git.Blame(commit, path): an error for the paths that cannot be blamed
Blame(p, bad, blank) ==
  IF p \in bad THEN [err |-> TRUE, lines |-> << >>]
  ELSE [err |-> FALSE, lines |-> IF p \in blank THEN BlankLinesOf(p) ELSE BlameLinesOf(p)]

\* ------------------------------------------------------------------ state
VARIABLES
  head,          \* gdc.head: hash of the HEAD commit of the collector
  badCommits,    \* commits whose GetCommitStats fails
  numFiles,      \* tracked non-binary paths at HEAD: 1..numFiles
  badFiles,      \* paths whose git.Blame fails
  numCPU,        \* runtime.NumCPU()
  cache,         \* cache[sha]: the cache file of HEAD sha
  Data,          \* gdc.Data
  pc,            \* where the coordinating goroutine is inside Collect
  result,        \* what the last Collect returned: "none", "ok" or its error
  lookup,        \* how the cache lookup of the last Collect ended
  saved,         \* how the SaveCache of the last Collect ended
  commits,       \* the slice IterateCommits returned
  ci,            \* commits processed so far by the loop of Collect
  trace,         \* phases the running Collect has started, in order
  collects,      \* Collect calls so far
  jobs, jobsClosed, results, resultsClosed,
  sent,          \* paths the coordinator has put on jobs
  wpc, wjob,     \* workers: position and the path in hand
  wg,            \* sync.WaitGroup counter
  closer,        \* the goroutine that waits and closes results
  pool,          \* bookkeeping of the running Blaming (observation only)
  parents,       \* a commit graph: parents[c] is the set of parents of commit c
  frontier,      \* commits the log iterator has found and not yet returned
  log,           \* commits the log iterator has returned, in order
  commit,        \* a commit handed to GetCommitStats / GetFilePaths
  stats,         \* what GetCommitStats returned for it
  paths,         \* what GetFilePaths returned for it
  blameIn,       \* a blame result handed to the loops of GetBlameForFile
  blameOut,      \* what GetBlameForFile returned for it
  atPath,        \* what lies at REPO_PATH: nothing, a file, a directory, a repository
  remote,        \* the remotes of the repository: "origin" or "none"
  branchAt,      \* HEAD is on a "branch", "detached", or "unreadable" when asked again
  blankFiles,    \* paths whose git.Blame succeeds without a line that has an author
  exit,          \* exit status of the command that ended last
  truncIn,       \* the arguments of a call of the template function Truncate
  truncOut       \* what the call returned

envVars == <<badCommits, numFiles, badFiles, numCPU, atPath, remote, branchAt, blankFiles>>
repoVars == <<head, envVars>>
chanVars == <<jobs, jobsClosed, results, resultsClosed, sent, wpc, wjob, wg, closer, pool>>
walkVars == <<parents, frontier, log>>
treeVars == <<commit, stats, paths>>
blameVars == <<blameIn, blameOut>>
tmplVars == <<truncIn, truncOut>>
gitVars == <<walkVars, treeVars, blameVars, tmplVars>>
runVars == <<cache, Data, pc, result, lookup, saved, commits, ci, trace, collects, exit>>
vars == <<head, badCommits, numFiles, badFiles, numCPU, cache, Data, pc, result, lookup, saved, commits,
          ci, trace, collects, jobs, jobsClosed, results, resultsClosed, sent,
          wpc, wjob, wg, closer, pool, parents, frontier, log, commit, stats, paths,
          blameIn, blameOut, atPath, remote, branchAt, blankFiles, exit, truncIn, truncOut>>

\* no command has ended yet, or one is running
NoExit == -1

Workers == 1..MaxCPU
Paths == 1..numFiles

\* what git.Blame does on tracked path p
PathKind(p) ==
  IF p \in badFiles THEN "bad" ELSE IF p \in blankFiles THEN "blank" ELSE "text"

\* --------------------------------------------------------------- data model
ZeroMetadata == [SHA |-> 0, DateCollected |-> 0, URL |-> "", Branch |-> << >>]

EmptyData ==
  [Metadata |-> ZeroMetadata, Contributors |-> EmptyMap, Files |-> EmptyMap,
   History |-> << >>]

\* a slice is nil or holds items; []string{} is empty and not nil
NilSlice == [nil |-> TRUE, items |-> << >>]
EmptySlice == [nil |-> FALSE, items |-> << >>]
AppendTo(s, x) == [nil |-> FALSE, items |-> Append(s.items, x)]

\* History is kept as its items: the slice of a collector is never nil
ZeroContributor ==
  [Identities |-> EmptySlice, CommitCount |-> 0, Insertions |-> 0, Deletions |-> 0,
   ActiveLines |-> 0]

\* ------------------------------------------------------------------- cache
NoEntry == [kind |-> "absent", data |-> EmptyData]
Unreadable == [kind |-> "unreadable", data |-> EmptyData]
Entry(d) == [kind |-> "ok", data |-> d]

\* cachePath: the file of the cache directory of the repository that is named
\* by the hash of gdc.head
cachePathMut == MaxCommits
cachePath == head

CacheExists == cache[cachePath].kind # "absent"

\* a map value goes through gob into a fresh struct: a slice without items is
\* not transmitted and the field stays nil
GobContributor(c) ==
  [c EXCEPT !.Identities = IF @.items = << >> THEN NilSlice ELSE @]

\* gob decoding into the existing gdc.Data: a zero field is not transmitted and
\* leaves the destination as it was; a map is decoded key by key into the
\* existing map; a non-empty slice replaces the destination.
GobDecodeInto(dst, src) ==
  [Metadata |->
     [SHA |-> IF src.Metadata.SHA = 0 THEN dst.Metadata.SHA ELSE src.Metadata.SHA,
      DateCollected |-> IF src.Metadata.DateCollected = 0
                        THEN dst.Metadata.DateCollected
                        ELSE src.Metadata.DateCollected,
      URL |-> IF src.Metadata.URL = "" THEN dst.Metadata.URL ELSE src.Metadata.URL,
      Branch |-> IF src.Metadata.Branch = << >> THEN dst.Metadata.Branch
                 ELSE src.Metadata.Branch],
   Contributors |->
     [n \in (DOMAIN dst.Contributors) \cup (DOMAIN src.Contributors) |->
        IF n \in DOMAIN src.Contributors THEN GobContributor(src.Contributors[n])
        ELSE dst.Contributors[n]],
   Files |->
     [p \in (DOMAIN dst.Files) \cup (DOMAIN src.Files) |->
        IF p \in DOMAIN src.Files THEN src.Files[p] ELSE dst.Files[p]],
   History |-> IF src.History = << >> THEN dst.History ELSE src.History]

\* a file whose decoding fails after the part d of a dataset has been decoded
Partial(d) == [kind |-> "partial", data |-> d]

\* LoadCache: [err, data], data being gdc.Data afterwards; the decoder writes
\* into gdc.Data as it goes, so what it decoded before a failure stays
LoadCache(d, e) ==
  CASE e.kind = "ok" -> [err |-> FALSE, data |-> GobDecodeInto(d, e.data)]
    [] e.kind = "partial" -> [err |-> TRUE, data |-> GobDecodeInto(d, e.data)]
    [] OTHER -> [err |-> TRUE, data |-> d]

\* a dataset without commit SHA and collection date: a contributor, a file
\* summary and a history record that are not of this repository
StaleData ==
  [Metadata |-> ZeroMetadata,
   Contributors |-> [n \in {<<"z">>} |->
      [ZeroContributor EXCEPT !.Identities = AppendTo(NilSlice, "x"), !.CommitCount = 1]],
   Files |-> [p \in {MaxFiles + 1} |->
      [DateIntroduced |-> 1, OriginalAuthor |-> <<"z">>, TotalCommits |-> 1,
       TotalLines |-> 1, TopContributor |-> [name |-> <<"z">>, pct |-> 10000],
       LinesByContributor |-> [n \in {<<"z">>} |-> 1]]],
   History |-> <<[Commit |-> MaxCommits + 1, Contributor |-> <<<<"z">>, "x">>, Date |-> 1,
                  Insertions |-> 1, Deletions |-> 0]>>]

\* ClearCache: what os.Remove leaves of the entry when it succeeds
AfterRemoveMut(e) == e
AfterRemove(e) == NoEntry

ErrRemoveCache == "failed to remove cache file"
ErrLoadCache == "failed to load cache"

\* the check of Collect on a loaded dataset
CacheInvalidMut(d) == FALSE
CacheInvalid(d) == d.Metadata.SHA = 0 \/ d.Metadata.DateCollected = 0


\* ------------------------------------------------------------ gitutil model
\* IterateCommits: the log from HEAD (newest first), reversed in place
LogFrom(h) == [k \in 1..h |-> CommitObject(h + 1 - k)]

Reverse(s) == [k \in 1..Len(s) |-> s[Len(s) + 1 - k]]

IterateCommits(h) == Reverse(LogFrom(h))

\* ---- repo.Log with LogOrderCommitterTime over a commit graph
\* commit c of the graph par
CommitIn(par, c) == [CommitObject(c) EXCEPT !.NumParents = Cardinality(par[c])]

\* the commit the iterator returns next: the found commit with the latest
\* committer time
LogNextMut(F) == CHOOSE c \in F : \A d \in F : CommitObject(c).When <= CommitObject(d).When
LogNext(F) == CHOOSE c \in F : \A d \in F : CommitObject(d).When <= CommitObject(c).When

\* GetCommitStats: totals against the first parent; an initial commit has no
\* deletions
GetCommitStats(c) ==
  [err |-> c.Hash \in badCommits,
   insertions |-> c.Hash,
   deletions |-> IF c.NumParents = 0 THEN 0 ELSE c.Hash - 1]

\* GetCommitDetails(gdc.head).SHA
GetCommitDetailsMut(h) == MaxCommits
GetCommitDetails(h) == h

\* the first loop of GetBlameForFile, line by line
BlameStepMut(acc, line) ==
  [acc EXCEPT
     !.TotalLines = @ + 1,
     !.LinesByContributor =
        IF line.Author = << >> THEN @
        ELSE Put(@, DisplayName(line.Author),
                 IF DisplayName(line.Author) \in DOMAIN @
                 THEN @[DisplayName(line.Author)] + 1 ELSE 1)]
BlameStepEarliestMut(acc, line) ==
  IF line.Author = << >> THEN acc
  ELSE LET name == DisplayName(line.Author)
           total == acc.TotalLines + 1
           first == total = 1
           date0 == IF first THEN line.Date ELSE acc.DateIntroduced
       IN [acc EXCEPT
             !.LinesByContributor =
                Put(@, name, IF name \in DOMAIN @ THEN @[name] + 1 ELSE 1),
             !.TotalLines = total,
             !.OriginalAuthor = IF first THEN name ELSE @,
             !.DateIntroduced = IF line.Date < date0 THEN line.Date ELSE date0]
BlameStep(acc, line) ==
  IF line.Author = << >> THEN acc
  ELSE LET name == DisplayName(line.Author)
           total == acc.TotalLines + 1
           first == total = 1
           date0 == IF first THEN line.Date ELSE acc.DateIntroduced
       IN [acc EXCEPT
             !.LinesByContributor =
                Put(@, name, IF name \in DOMAIN @ THEN @[name] + 1 ELSE 1),
             !.TotalLines = total,
             !.OriginalAuthor = IF first THEN name ELSE @,
             !.DateIntroduced = IF line.Date > date0 THEN line.Date ELSE date0]

ZeroBlameStats ==
  [DateIntroduced |-> 0, OriginalAuthor |-> << >>, TotalCommits |-> 0,
   TotalLines |-> 0, TopContributor |-> << >>, LinesByContributor |-> EmptyMap]

\* the loop itself: the statistics after one line are a value before the
\* next line is read
RECURSIVE BlameLoop(_, _)
BlameLoop(acc, lines) ==
  IF lines = << >> THEN acc
  ELSE CHOOSE r \in {BlameLoop(next, Tail(lines)) :
                       next \in {BlameStep(acc, Head(lines))}} : TRUE

DistinctCommits(lines) == {lines[k].Hash : k \in 1..Len(lines)} \ {0}

MaxLines(lbc) ==
  IF DOMAIN lbc = {} THEN 0
  ELSE CHOOSE m \in {lbc[n] : n \in DOMAIN lbc} : \A n \in DOMAIN lbc : lbc[n] <= m

\* the contributors the scan for the top contributor can end on: the order of
\* iteration over a Go map is not specified
TopCandidates(b) ==
  LET lbc == BlameLoop(ZeroBlameStats, b.lines).LinesByContributor
  IN IF b.err \/ DOMAIN lbc = {} THEN {<< >>}
     ELSE {n \in DOMAIN lbc : lbc[n] = MaxLines(lbc)}

\* "%s (%.2f%%)": the name and the percentage in hundredths, rounded
TopLabel(name, lines, total) ==
  [name |-> name, pct |-> (lines * 20000 + total) \div (2 * total)]

\* GetBlameForFile: [Stats, Err]; top is the contributor the scan ended on
GetBlameForFile(b, top) ==
  IF b.err THEN [Stats |-> ZeroBlameStats, Err |-> TRUE]
  ELSE IF Len(b.lines) = 0 THEN [Stats |-> ZeroBlameStats, Err |-> FALSE]
  ELSE LET s1 == BlameLoop(ZeroBlameStats, b.lines)
           s2 == [s1 EXCEPT !.TotalCommits = Cardinality(DistinctCommits(b.lines))]
       IN [Stats |->
             IF s2.TotalLines > 0
             THEN [s2 EXCEPT !.TopContributor =
                     TopLabel(top, MaxLines(s2.LinesByContributor), s2.TotalLines)]
             ELSE s2,
           Err |-> FALSE]

\* ---- a commit with its tree, for GetFilePaths and GetCommitStats
\* A file of the tree, named by its position: whether IsBinary reports it
\* binary, the lines Lines() returns, and the additions and deletions of its
\* change against the first parent (a binary change has no chunks).
TextFile(l, a, d) == [bin |-> FALSE, lines |-> l, changed |-> a + d > 0, add |-> a, del |-> d]
BinaryFile(l, c) == [bin |-> TRUE, lines |-> l, changed |-> c, add |-> 0, del |-> 0]

NoCommit == [NumParents |-> 0, files |-> << >>]
NoStats == [set |-> FALSE, insertions |-> 0, deletions |-> 0, filesChanged |-> EmptyMap]
NoPaths == [set |-> FALSE, list |-> << >>]

\* GetFilePaths: the names of the files of the tree, binaries skipped
GetFilePathsMut(c) ==
  [set |-> TRUE, list |-> [k \in 1..Len(c.files) |-> k]]
GetFilePaths(c) ==
  [set |-> TRUE,
   list |-> SelectSeq([k \in 1..Len(c.files) |-> k], LAMBDA k : ~c.files[k].bin)]

\* the entry GetCommitStats makes for a file of an initial commit
InitialFileStatsMut(f) == [Insertions |-> f.lines, Deletions |-> 0, Lines |-> 0]
InitialFileStats(f) == [Insertions |-> f.lines, Deletions |-> 0, Lines |-> f.lines]

\* the ForEach over the tree of an initial commit, file by file
RECURSIVE InitialLoop(_, _, _)
InitialLoop(acc, files, k) ==
  IF k > Len(files) THEN acc
  ELSE CHOOSE r \in {InitialLoop(next, files, k + 1) :
         next \in {IF files[k].bin THEN acc
                   ELSE [acc EXCEPT !.insertions = @ + files[k].lines,
                                    !.filesChanged = Put(@, k, InitialFileStats(files[k]))]}} : TRUE

\* parentCommit.Patch(commit).FilePatches(): one file patch per changed file
FilePatches(c) ==
  SelectSeq([k \in 1..Len(c.files) |-> k], LAMBDA k : c.files[k].changed)

\* Patch.Stats(): one entry per file patch that has chunks
PatchStats(c) == SelectSeq(FilePatches(c), LAMBDA k : ~c.files[k].bin)

\* the entry GetCommitStats makes for a file patch
PatchFileStats(f) ==
  [Insertions |-> f.add, Deletions |-> f.del, Lines |-> IF f.bin THEN 0 ELSE f.lines]

\* GetCommitStats, with the tree and the patch of the commit spelled out
CommitStats(c) ==
  IF c.NumParents = 0
  THEN InitialLoop([NoStats EXCEPT !.set = TRUE], c.files, 1)
  ELSE LET overallStats == PatchStats(c)
       IN [set |-> TRUE,
           insertions |-> IF Len(overallStats) > 0 THEN c.files[overallStats[1]].add ELSE 0,
           deletions |-> IF Len(overallStats) > 0 THEN c.files[overallStats[1]].del ELSE 0,
           filesChanged |->
             [k \in {FilePatches(c)[j] : j \in 1..Len(FilePatches(c))} |->
                PatchFileStats(c.files[k])]]

\* what gitutil.GetBlameForFile(repo, head, p) can return for each tracked
\* path p, by what git.Blame does on it ("bad": fails, "blank": no line with
\* an author, "text"): one outcome for each contributor the scan for the top
\* contributor can end on
BlameOutcomes ==
  [p \in 1..MaxFiles |-> [k \in {"bad", "blank", "text"} |->
     LET b == Blame(p, IF k = "bad" THEN {p} ELSE {}, IF k = "blank" THEN {p} ELSE {})
     IN {GetBlameForFile(b, top) : top \in TopCandidates(b)}]]

\* ------------------------------------------------------------ collector model
\* GetRepoRemoteURL: the URL of origin, or a placeholder and an error
GetRepoRemoteURL(rem) ==
  IF rem = "origin" THEN [url |-> "https://origin", err |-> FALSE]
  ELSE [url |-> "unknown (could not list remotes)", err |-> TRUE]

\* GetRepoBranch: the short name of the branch, or the hash with a remark
GetRepoBranch(h, at) ==
  CASE at = "branch" -> [name |-> <<"main">>, err |-> FALSE]
    [] at = "detached" -> [name |-> <<h, " (detached)">>, err |-> FALSE]
    [] OTHER -> [name |-> <<h, " (detached - error getting head)">>, err |-> TRUE]

\* collectMetadata
collectMetadataMut(d, h, now, rem, at) ==
  [d EXCEPT !.Metadata =
     [SHA |-> GetCommitDetails(h), DateCollected |-> now,
      URL |-> GetRepoRemoteURL(rem).url, Branch |-> GetRepoBranch(h, at).name]]
collectMetadata(d, h, now, rem, at) ==
  LET r == GetRepoRemoteURL(rem)
      b == GetRepoBranch(h, at)
  IN [d EXCEPT !.Metadata =
        [SHA |-> GetCommitDetails(h), DateCollected |-> now,
         URL |-> IF r.err THEN "unknown" ELSE r.url,
         Branch |-> IF b.err THEN <<h, " (error determining branch)">> ELSE b.name]]

\* the scan of collectCommitData over the identities of a contributor
isNewIdentityMut(identities, email) == TRUE
isNewIdentity(identities, email) ==
  \A k \in 1..Len(identities) : identities[k] # email

\* collectCommitData: the contributor entry is created before the statistics
\* are asked for; the counters are written back only when they are available
collectCommitDataLastMut(d, c) ==
  LET name == DisplayName(c.Name)
      d1 == IF name \in DOMAIN d.Contributors THEN d
            ELSE [d EXCEPT !.Contributors = Put(@, name, ZeroContributor)]
      old == d1.Contributors[name]
      ids == IF isNewIdentity(old.Identities.items, c.Email)
             THEN AppendTo(old.Identities, c.Email) ELSE old.Identities
      st == GetCommitStats(c)
      new == [old EXCEPT !.Identities = ids,
                         !.CommitCount = @ + 1,
                         !.Insertions = st.insertions,
                         !.Deletions = st.deletions]
      item == [Commit |-> c.Hash, Contributor |-> <<c.Name, c.Email>>,
               Date |-> c.When, Insertions |-> st.insertions,
               Deletions |-> st.deletions]
  IN IF st.err THEN d1
     ELSE [d1 EXCEPT !.Contributors = Put(@, name, new),
                     !.History = Append(@, item)]
collectCommitDataMut(d, c) ==
  LET name == DisplayName(c.Name)
      d1 == IF name \in DOMAIN d.Contributors THEN d
            ELSE [d EXCEPT !.Contributors = Put(@, name, ZeroContributor)]
      old == d1.Contributors[name]
      ids == IF isNewIdentity(old.Identities.items, c.Email)
             THEN AppendTo(old.Identities, c.Email) ELSE old.Identities
      st == GetCommitStats(c)
      new == [old EXCEPT !.Identities = ids,
                         !.CommitCount = @ + 1,
                         !.Insertions = @ + st.insertions,
                         !.Deletions = @ + st.deletions]
      item == [Commit |-> c.Hash, Contributor |-> <<c.Name, c.Email>>,
               Date |-> c.When, Insertions |-> st.insertions,
               Deletions |-> st.deletions]
  IN IF st.err THEN [d1 EXCEPT !.History = Append(@, item)]
     ELSE [d1 EXCEPT !.Contributors = Put(@, name, new),
                     !.History = Append(@, item)]
collectCommitData(d, c) ==
  LET name == DisplayName(c.Name)
      d1 == IF name \in DOMAIN d.Contributors THEN d
            ELSE [d EXCEPT !.Contributors = Put(@, name, ZeroContributor)]
      old == d1.Contributors[name]
      ids == IF isNewIdentity(old.Identities.items, c.Email)
             THEN AppendTo(old.Identities, c.Email) ELSE old.Identities
      st == GetCommitStats(c)
      new == [old EXCEPT !.Identities = ids,
                         !.CommitCount = @ + 1,
                         !.Insertions = @ + st.insertions,
                         !.Deletions = @ + st.deletions]
      item == [Commit |-> c.Hash, Contributor |-> <<c.Name, c.Email>>,
               Date |-> c.When, Insertions |-> st.insertions,
               Deletions |-> st.deletions]
  IN IF st.err THEN d1
     ELSE [d1 EXCEPT !.Contributors = Put(@, name, new),
                     !.History = Append(@, item)]

\* the body of the loop over results in collectBlameDataByFile
ConsumeResultLastMut(d, r) ==
  IF r.Err \/ r.Stats.TotalLines = 0 THEN d
  ELSE [d EXCEPT !.Files = Put(EmptyMap, r.Path, r.Stats)]
ConsumeResultZeroMut(d, r) ==
  IF r.Err THEN d ELSE [d EXCEPT !.Files = Put(@, r.Path, r.Stats)]
ConsumeResultMut(d, r) ==
  [d EXCEPT !.Files = Put(@, r.Path, r.Stats)]
ConsumeResult(d, r) ==
  IF r.Err THEN d
  ELSE IF r.Stats.TotalLines > 0 THEN [d EXCEPT !.Files = Put(@, r.Path, r.Stats)]
  ELSE d

\* lines of contributor n in file summary f
LinesOf(f, n) ==
  IF n \in DOMAIN f.LinesByContributor THEN f.LinesByContributor[n] ELSE 0

ActiveLinesOf(d, n) ==
  SumOver([p \in DOMAIN d.Files |-> LinesOf(d.Files[p], n)], DOMAIN d.Files)

\* collectActiveLineCountByContributor
collectActiveLineCountByContributorDropMut(d) ==
  [d EXCEPT !.Contributors =
     [n \in {m \in DOMAIN @ : ActiveLinesOf(d, m) > 0} |->
        [@[n] EXCEPT !.ActiveLines = ActiveLinesOf(d, n)]]]
collectActiveLineCountByContributorMut(d) ==
  [d EXCEPT !.Contributors =
     [n \in DOMAIN @ |->
        [@[n] EXCEPT !.ActiveLines =
           Cardinality({p \in DOMAIN d.Files : LinesOf(d.Files[p], n) > 0})]]]
collectActiveLineCountByContributor(d) ==
  [d EXCEPT !.Contributors =
     [n \in DOMAIN @ |-> [@[n] EXCEPT !.ActiveLines = ActiveLinesOf(d, n)]]]

\* the errors Collect wraps and returns
ErrIterateCommits == "failed to iterate commits"
ErrBlameData == "failed to collect blame data"
ErrSaveCache == "failed to save data to cache"
ErrCommit == "failed to process commit"

\* the errors NewGitDataCollector returns
ErrOpenRepository == "failed to open repository"
ErrHeadCommit == "failed to get HEAD"

NewCollectorError(opened, resolved) ==
  IF ~opened THEN ErrOpenRepository ELSE IF ~resolved THEN ErrHeadCommit ELSE "none"

\* with an error there is no collector to call Collect on
AfterNewCollectorMut(err) == "idle"
AfterNewCollector(err) == IF err = "none" THEN "idle" ELSE "failed"

\* the checks of the collect command on REPO_PATH: it exists, is a directory,
\* and holds a .git entry or a HEAD file
PathKinds == {"missing", "file", "directory", "git", "bare"}

ErrPathMissing == "repository path does not exist"
ErrNotDirectory == "repository path is not a directory"
ErrNotRepository == "does not appear to be a git repository"

ValidatePathMut(k) == "none"
ValidatePath(k) ==
  CASE k = "missing" -> ErrPathMissing
    [] k = "file" -> ErrNotDirectory
    [] k = "directory" -> ErrNotRepository
    [] OTHER -> "none"

\* main: an error from the command makes the exit status 1
ExitCodeMut(err) == 0
ExitCode(err) == IF err = "ok" THEN 0 ELSE 1

\* the order of the statements of Collect after the cache lookup
AfterPhaseMut(p) ==
  CASE p = "meta" -> "walk"
    [] p = "walk" -> "reduce"
    [] p = "reduce" -> "blame"
    [] p = "blame" -> "save"
    [] OTHER -> "done"
AfterPhase(p) ==
  CASE p = "meta" -> "walk"
    [] p = "walk" -> "blame"
    [] p = "blame" -> "reduce"
    [] p = "reduce" -> "save"
    [] OTHER -> "done"

\* the worker pool of collectBlameDataByFile
NumWorkersMut(cpu, n) == cpu
NumWorkers(cpu, n) == IF n < cpu THEN n ELSE cpu
JobsCap(n) == n
ResultsCap(n) == n

\* wg.Done()
WgDoneMut(w) == w
WgDone(w) == w - 1

\* wg.Wait() returns
WaitReturnsMut(w) == TRUE
WaitReturns(w) == w = 0

\* a receive from jobs takes the job off the queue
JobsAfterRecvMut(q) == q
JobsAfterRecv(q) == Tail(q)

NoPool ==
  [taken |-> << >>, produced |-> << >>, written |-> << >>, blamed |-> << >>,
   received |-> 0, closes |-> 0, lateSend |-> FALSE, started |-> 0]

\* blamed[p]: what GetBlameForFile returned for path p in this call
NotBlamed == [Stats |-> ZeroBlameStats, Err |-> TRUE]

FreshPool(n, w) ==
  [taken |-> [p \in 1..n |-> 0], produced |-> [p \in 1..n |-> 0],
   written |-> [p \in 1..n |-> 0], blamed |-> [p \in 1..n |-> NotBlamed],
   received |-> 0, closes |-> 0, lateSend |-> FALSE, started |-> w]


\* no call of collectBlameDataByFile is running: no channel, no goroutine
NoGoroutines ==
  /\ jobs = << >>
  /\ jobsClosed = FALSE
  /\ results = << >>
  /\ resultsClosed = FALSE
  /\ sent = 0
  /\ wpc = [w \in Workers |-> "none"]
  /\ wjob = [w \in Workers |-> 0]
  /\ wg = 0
  /\ closer = "none"
  /\ pool = NoPool

\* the channels and goroutines of an earlier call are gone
ResetGoroutines ==
  /\ jobs' = << >>
  /\ jobsClosed' = FALSE
  /\ results' = << >>
  /\ resultsClosed' = FALSE
  /\ sent' = 0
  /\ wpc' = [w \in Workers |-> "none"]
  /\ wjob' = [w \in Workers |-> 0]
  /\ wg' = 0
  /\ closer' = "none"
  /\ pool' = NoPool

\* ---- the template function Truncate of HtmlReportAdapter.PrepareData
\* strings are sequences of one-byte characters
\* strings.LastIndex(s, " "): the last position of a blank in s, counted
\* from 0, or -1
LastIndex(s) ==
  IF \A k \in 1..Len(s) : s[k] # " " THEN -1
  ELSE (CHOOSE k \in 1..Len(s) : s[k] = " " /\ \A j \in (k + 1)..Len(s) : s[j] # " ") - 1

\* s[:n]: a run-time panic when n is negative or beyond the string
Slice(s, n) ==
  IF n < 0 \/ n > Len(s) THEN [panic |-> TRUE, str |-> << >>]
  ELSE [panic |-> FALSE, str |-> SubSeq(s, 1, n)]

Plus(x, end) == IF x.panic THEN x ELSE [x EXCEPT !.str = @ \o end]

Truncate(s, length, killwords, end) ==
  IF Len(s) <= length THEN [panic |-> FALSE, str |-> s]
  ELSE IF ~killwords /\ LastIndex(Slice(s, length).str) # -1
  THEN Plus(Slice(s, LastIndex(Slice(s, length).str)), end)
  ELSE Plus(Slice(s, length - Len(end)), end)

NoArguments == [s |-> << >>, length |-> 0, killwords |-> FALSE, end |-> << >>]
NotCalled == [panic |-> FALSE, str |-> <<"?">>]

TemplateIdle == truncIn = NoArguments /\ truncOut = NotCalled

\* no helper of gitutil or of the report is being exercised on its own
GitIdle ==
  /\ parents = << >> /\ frontier = {} /\ log = << >>
  /\ commit = NoCommit /\ stats = NoStats /\ paths = NoPaths
  /\ blameIn = << >> /\ blameOut = NotBlamed
  /\ TemplateIdle

\* a work tree on a branch with an origin remote, every file with an author
PlainRepository ==
  atPath = "git" /\ remote = "origin" /\ branchAt = "branch" /\ blankFiles = {}

\* ------------------------------------------------------------------- Init
Init ==
  /\ GitIdle
  /\ PlainRepository
  /\ exit = NoExit
  /\ head \in 1..MaxCommits
  /\ badCommits \in {{}} \cup {{c} : c \in 1..MaxCommits}
  /\ numFiles \in 0..MaxFiles
  /\ badFiles \in SUBSET (1..numFiles)
  /\ numCPU \in 1..MaxCPU
  /\ \E e \in {NoEntry, Unreadable, Entry(EmptyData)} :
       cache = [s \in 1..MaxCommits |-> IF s = head THEN e ELSE NoEntry]
  /\ Data = EmptyData
  /\ pc = "idle"
  /\ result = "none"
  /\ lookup = "none"
  /\ saved = "none"
  /\ commits = << >>
  /\ ci = 0
  /\ trace = << >>
  /\ collects = 0
  /\ NoGoroutines

\* ------------------------------------------------------- Collect, in steps
\* Collect is called: the cache lookup (CacheExists, LoadCache, validation)
CollectLookup ==
  /\ pc \in {"idle", "done"}
  /\ collects < MaxCollects
  /\ collects' = collects + 1
  /\ trace' = << >>
  /\ saved' = "none"
  /\ LET l == LoadCache(Data, cache[cachePath])
     IN IF ~CacheExists
        THEN /\ lookup' = "absent" /\ Data' = Data
             /\ pc' = "meta" /\ result' = "none"
        ELSE IF l.err
        THEN /\ lookup' = "loadfail" /\ Data' = l.data
             /\ pc' = "meta" /\ result' = "none"
        ELSE IF CacheInvalid(l.data)
        THEN /\ lookup' = "invalid" /\ Data' = l.data
             /\ pc' = "meta" /\ result' = "none"
        ELSE /\ lookup' = "hit" /\ Data' = l.data
             /\ pc' = "done" /\ result' = "ok"
  /\ commits' = << >> /\ ci' = 0
  /\ ResetGoroutines
  /\ UNCHANGED <<gitVars, exit, repoVars, cache>>

CollectMetadata ==
  /\ pc = "meta"
  /\ trace' = Append(trace, "meta")
  /\ Data' = collectMetadata(Data, head, collects, remote, branchAt)
  /\ pc' = AfterPhase("meta")
  /\ UNCHANGED <<gitVars, exit, repoVars, cache, result, lookup, saved, commits, ci, collects, chanVars>>

\* gitutil.IterateCommits returns the commits, or its error ends Collect
Walk ==
  /\ pc = "walk"
  /\ trace' = Append(trace, "walk")
  /\ \E ok \in BOOLEAN :
       IF ok
       THEN /\ commits' = IterateCommits(head) /\ ci' = 0
            /\ pc' = "commits" /\ result' = result
       ELSE /\ pc' = "done" /\ result' = ErrIterateCommits
            /\ UNCHANGED <<commits, ci>>
  /\ UNCHANGED <<gitVars, exit, repoVars, cache, Data, lookup, saved, collects, chanVars>>

\* one turn of the loop over commits
WalkCommitMut ==
  /\ pc = "commits"
  /\ ci < Len(commits)
  /\ Data' = collectCommitData(Data, commits[ci + 1])
  /\ ci' = ci + 1
  /\ IF GetCommitStats(commits[ci + 1]).err
     THEN pc' = "done" /\ result' = ErrCommit
     ELSE UNCHANGED <<pc, result>>
  /\ UNCHANGED <<gitVars, exit, repoVars, cache, lookup, saved, commits, trace, collects, chanVars>>
WalkCommit ==
  /\ pc = "commits"
  /\ ci < Len(commits)
  /\ Data' = collectCommitData(Data, commits[ci + 1])
  /\ ci' = ci + 1
  /\ UNCHANGED <<gitVars, exit, repoVars, cache, pc, result, lookup, saved, commits, trace, collects, chanVars>>

WalkDone ==
  /\ pc = "commits"
  /\ ci = Len(commits)
  /\ pc' = AfterPhase("walk")
  /\ UNCHANGED <<gitVars, exit, repoVars, cache, Data, result, lookup, saved, commits, ci, trace, collects, chanVars>>

\* collectBlameDataByFile up to the start of the workers
BlameStart ==
  /\ pc = "blame"
  /\ trace' = Append(trace, "blame")
  /\ \E ok \in BOOLEAN :
       IF ~ok
       THEN /\ pc' = "done" /\ result' = ErrBlameData /\ UNCHANGED chanVars
       ELSE IF numFiles = 0
       THEN /\ pc' = AfterPhase("blame") /\ UNCHANGED <<result, chanVars>>
       ELSE /\ pc' = "distribute"
            /\ result' = result
            /\ jobs' = << >> /\ jobsClosed' = FALSE
            /\ results' = << >> /\ resultsClosed' = FALSE
            /\ sent' = 0
            /\ wpc' = [w \in Workers |->
                         IF w <= NumWorkers(numCPU, numFiles) THEN "recv" ELSE "none"]
            /\ wjob' = [w \in Workers |-> 0]
            /\ wg' = NumWorkers(numCPU, numFiles)
            /\ closer' = "none"
            /\ pool' = FreshPool(numFiles, NumWorkers(numCPU, numFiles))
  /\ UNCHANGED <<gitVars, exit, repoVars, cache, Data, lookup, saved, commits, ci, collects>>

\* jobs <- filePath
Distribute ==
  /\ pc = "distribute"
  /\ sent < numFiles
  /\ Len(jobs) < JobsCap(numFiles)
  /\ jobs' = Append(jobs, sent + 1)
  /\ sent' = sent + 1
  /\ UNCHANGED <<gitVars, exit, repoVars, cache, Data, pc, result, lookup, saved, commits, ci, trace,
                 collects, jobsClosed, results, resultsClosed, wpc, wjob, wg, closer, pool>>

\* close(jobs), and the goroutine that waits for the workers is started
CloseJobs ==
  /\ pc = "distribute"
  /\ sent = numFiles
  /\ jobsClosed' = TRUE
  /\ closer' = "waiting"
  /\ pc' = "drain"
  /\ UNCHANGED <<gitVars, exit, repoVars, cache, Data, result, lookup, saved, commits, ci, trace,
                 collects, jobs, results, resultsClosed, sent, wpc, wjob, wg, pool>>

\* a worker receives a path from jobs
WorkerTake(w) ==
  /\ wpc[w] = "recv"
  /\ jobs # << >>
  /\ wjob' = [wjob EXCEPT ![w] = Head(jobs)]
  /\ jobs' = JobsAfterRecv(jobs)
  /\ wpc' = [wpc EXCEPT ![w] = "send"]
  /\ pool' = [pool EXCEPT !.taken[Head(jobs)] = @ + 1]
  /\ UNCHANGED <<gitVars, exit, repoVars, cache, Data, pc, result, lookup, saved, commits, ci, trace,
                 collects, jobsClosed, results, resultsClosed, sent, wg, closer>>

\* the range over jobs ends: the worker returns and its deferred wg.Done runs
WorkerExit(w) ==
  /\ wpc[w] = "recv"
  /\ jobs = << >>
  /\ jobsClosed
  /\ wpc' = [wpc EXCEPT ![w] = "exited"]
  /\ wg' = WgDone(wg)
  /\ UNCHANGED <<gitVars, exit, repoVars, cache, Data, pc, result, lookup, saved, commits, ci, trace,
                 collects, jobs, jobsClosed, results, resultsClosed, sent, wjob, closer, pool>>

\* a worker blames the path in hand and sends the result; a send on a closed
\* channel panics
WorkerSendMut(w) ==
  /\ wpc[w] = "send"
  /\ ~resultsClosed
  /\ Len(results) < ResultsCap(numFiles)
  /\ \E b \in BlameOutcomes[wjob[w]][PathKind(wjob[w])] :
       LET r == [Path |-> wjob[w], Stats |-> b.Stats, Err |-> b.Err]
       IN /\ results' = Append(results, r)
          /\ Data' = ConsumeResult(Data, r)
          /\ wpc' = [wpc EXCEPT ![w] = "recv"]
          /\ pool' = [pool EXCEPT !.produced[wjob[w]] = @ + 1,
                                  !.blamed[wjob[w]] = b]
  /\ UNCHANGED <<gitVars, exit, repoVars, cache, pc, result, lookup, saved, commits, ci, trace,
                 collects, jobs, jobsClosed, resultsClosed, sent, wjob, wg, closer>>
WorkerSend(w) ==
  /\ wpc[w] = "send"
  /\ \E b \in BlameOutcomes[wjob[w]][PathKind(wjob[w])] :
       LET r == [Path |-> wjob[w], Stats |-> b.Stats, Err |-> b.Err]
       IN IF resultsClosed
          THEN /\ wpc' = [wpc EXCEPT ![w] = "panicked"]
               /\ pool' = [pool EXCEPT !.lateSend = TRUE]
               /\ results' = results
          ELSE /\ Len(results) < ResultsCap(numFiles)
               /\ results' = Append(results, r)
               /\ wpc' = [wpc EXCEPT ![w] = "recv"]
               /\ pool' = [pool EXCEPT !.produced[wjob[w]] = @ + 1,
                                       !.blamed[wjob[w]] = b]
  /\ UNCHANGED <<gitVars, exit, repoVars, cache, Data, pc, result, lookup, saved, commits, ci, trace,
                 collects, jobs, jobsClosed, resultsClosed, sent, wjob, wg, closer>>

\* wg.Wait() returns and results is closed
CloseResults ==
  /\ closer = "waiting"
  /\ WaitReturns(wg)
  /\ resultsClosed' = TRUE
  /\ closer' = "done"
  /\ pool' = [pool EXCEPT !.closes = @ + 1]
  /\ UNCHANGED <<gitVars, exit, repoVars, cache, Data, pc, result, lookup, saved, commits, ci, trace,
                 collects, jobs, jobsClosed, results, sent, wpc, wjob, wg>>

\* the coordinator receives one result
Consume ==
  /\ pc = "drain"
  /\ results # << >>
  /\ LET r == Head(results)
         wrote == r.Path \in DOMAIN ConsumeResult(EmptyData, r).Files
     IN /\ Data' = ConsumeResult(Data, r)
        /\ pool' = [pool EXCEPT !.received = @ + 1,
                                !.written[r.Path] = IF wrote THEN @ + 1 ELSE @]
  /\ results' = Tail(results)
  /\ UNCHANGED <<gitVars, exit, repoVars, cache, pc, result, lookup, saved, commits, ci, trace,
                 collects, jobs, jobsClosed, resultsClosed, sent, wpc, wjob, wg, closer>>

\* the range over results ends: collectBlameDataByFile returns nil
DrainEnd ==
  /\ pc = "drain"
  /\ results = << >>
  /\ resultsClosed
  /\ pc' = AfterPhase("blame")
  /\ UNCHANGED <<gitVars, exit, repoVars, cache, Data, result, lookup, saved, commits, ci, trace,
                 collects, chanVars>>

Reduce ==
  /\ pc = "reduce"
  /\ trace' = Append(trace, "reduce")
  /\ Data' = collectActiveLineCountByContributor(Data)
  /\ pc' = AfterPhase("reduce")
  /\ UNCHANGED <<gitVars, exit, repoVars, cache, result, lookup, saved, commits, ci, collects, chanVars>>

\* SaveCache and the return of Collect: the file is written; or the directory
\* or the file cannot be created ("failed"); or the file is created and the
\* write fails ("torn")
Save ==
  /\ pc = "save"
  /\ trace' = Append(trace, "save")
  /\ \E o \in {"ok", "failed", "torn"} :
       /\ saved' = o
       /\ cache' = [cache EXCEPT ![cachePath] =
                      CASE o = "ok" -> Entry(Data)
                        [] o = "torn" -> Unreadable
                        [] OTHER -> @]
       /\ result' = IF o = "ok" THEN "ok" ELSE ErrSaveCache
  /\ pc' = AfterPhase("save")
  /\ UNCHANGED <<gitVars, exit, repoVars, Data, lookup, commits, ci, collects, chanVars>>

\* a new collector on the repository, after zero or one new commit; without
\* a repository that opens and a HEAD that resolves there is no collector
NewGitDataCollector ==
  /\ pc \in {"done", "open"}
  /\ collects < MaxCollects
  /\ \E opened, resolved \in BOOLEAN, h \in {head, head + 1} \cap (1..MaxCommits) :
       LET err == NewCollectorError(opened, resolved)
       IN /\ pc' = AfterNewCollector(err)
          /\ result' = err
          /\ head' = IF err = "none" THEN h ELSE head
  /\ Data' = EmptyData
  /\ lookup' = "none" /\ saved' = "none"
  /\ commits' = << >> /\ ci' = 0 /\ trace' = << >>
  /\ ResetGoroutines
  /\ UNCHANGED <<gitVars, envVars, cache, collects, exit>>

\* the collect (or report) command up to the creation of the collector: the
\* checks on REPO_PATH
collectCmd ==
  /\ pc = "exited"
  /\ collects < MaxCollects
  /\ result' = ValidatePath(atPath)
  /\ pc' = IF ValidatePath(atPath) = "none" THEN "open" ELSE "failed"
  /\ exit' = NoExit
  /\ Data' = EmptyData
  /\ lookup' = "none" /\ saved' = "none"
  /\ commits' = << >> /\ ci' = 0 /\ trace' = << >>
  /\ ResetGoroutines
  /\ UNCHANGED <<gitVars, repoVars, cache, collects>>

\* the command returns what Collect returned, or the error met before it, and
\* main turns it into the exit status
CmdExit ==
  /\ pc \in {"done", "failed"}
  /\ exit' = ExitCode(result)
  /\ pc' = "exited"
  /\ UNCHANGED <<gitVars, repoVars, chanVars, cache, Data, result, lookup, saved, commits,
                 ci, trace, collects>>

Next ==
  \/ CollectLookup
  \/ CollectMetadata
  \/ Walk
  \/ WalkCommit
  \/ WalkDone
  \/ BlameStart
  \/ Distribute
  \/ CloseJobs
  \/ \E w \in Workers : WorkerTake(w)
  \/ \E w \in Workers : WorkerExit(w)
  \/ \E w \in Workers : WorkerSend(w)
  \/ CloseResults
  \/ Consume
  \/ DrainEnd
  \/ Reduce
  \/ Save
  \/ NewGitDataCollector
  \/ collectCmd
  \/ CmdExit

Spec == Init /\ [][Next]_vars


\* Scheduling: the Go runtime keeps running goroutines that can take a step,
\* so while some step of the coordinator, of a worker or of the closing
\* goroutine is possible, one is taken.
BlamingStep ==
  \/ Distribute
  \/ CloseJobs
  \/ \E w \in Workers : WorkerTake(w) \/ WorkerExit(w) \/ WorkerSend(w)
  \/ CloseResults
  \/ Consume
  \/ DrainEnd

Fairness == WF_vars(BlamingStep)

FairSpec == Spec /\ Fairness

\* ------------------------------------------- gitutil helpers on their own
\* a fresh collector at position p on a plain repository, nothing cached and
\* no goroutine running
FreshAt(p) ==
  /\ cache = [s \in 1..MaxCommits |-> NoEntry]
  /\ Data = EmptyData /\ pc = p /\ result = "none" /\ lookup = "none"
  /\ saved = "none" /\ commits = << >> /\ ci = 0 /\ trace = << >> /\ collects = 0
  /\ exit = NoExit
  /\ PlainRepository
  /\ NoGoroutines

\* a collector that is not running, on a one-commit repository without files
CollectorIdle ==
  /\ head = 1 /\ badCommits = {} /\ numFiles = 0 /\ badFiles = {} /\ numCPU = 1
  /\ FreshAt("idle")

\* commit graphs: the parents of a commit are older than it, at most two
Graphs ==
  {g \in [1..MaxLog -> SUBSET (1..MaxLog)] :
     \A c \in 1..MaxLog : g[c] \subseteq 1..(c - 1) /\ Cardinality(g[c]) <= 2}

\* Collect is about to call IterateCommits on the graph, from HEAD
WalkInit ==
  /\ parents \in Graphs
  /\ head \in 1..MaxLog
  /\ badCommits \in {{}} \cup {{c} : c \in 1..head}
  /\ numFiles = 0 /\ badFiles = {} /\ numCPU = 1
  /\ FreshAt("walk")
  /\ frontier = {head} /\ log = << >>
  /\ commit = NoCommit /\ stats = NoStats /\ paths = NoPaths
  /\ blameIn = << >> /\ blameOut = NotBlamed
  /\ TemplateIdle

\* commitIter.ForEach: the iterator returns its next commit and finds the
\* parents it has not seen
LogStep ==
  /\ pc = "walk"
  /\ frontier # {}
  /\ LET c == LogNext(frontier)
         seen == {log[k].Hash : k \in 1..Len(log)} \cup {c}
     IN /\ log' = Append(log, CommitIn(parents, c))
        /\ frontier' = (frontier \ {c}) \cup (parents[c] \ seen)
  /\ UNCHANGED <<repoVars, runVars, chanVars, treeVars, blameVars, tmplVars, parents>>

\* the iterator is exhausted: the slice is reversed in place and returned
LogDone ==
  /\ pc = "walk"
  /\ frontier = {}
  /\ commits' = Reverse(log)
  /\ ci' = 0
  /\ pc' = "commits"
  /\ UNCHANGED <<repoVars, cache, Data, result, lookup, saved, trace, collects, exit,
                 chanVars, gitVars>>

WalkNext == LogStep \/ LogDone \/ WalkCommit

WalkSpec == WalkInit /\ [][WalkNext]_vars

\* the files a tree can hold
FileKinds ==
  {TextFile(l, ch[1], ch[2]) : l \in 1..2, ch \in {<<0, 0>>, <<1, 0>>, <<2, 1>>}}
    \cup {BinaryFile(l, c) : l \in 1..2, c \in BOOLEAN}

Trees == UNION {[1..n -> FileKinds] : n \in 0..MaxTree}

TreeInit ==
  /\ CollectorIdle
  /\ parents = << >> /\ frontier = {} /\ log = << >>
  /\ blameIn = << >> /\ blameOut = NotBlamed
  /\ TemplateIdle
  /\ commit \in [NumParents : 0..1, files : Trees]
  /\ stats = NoStats /\ paths = NoPaths

CallGetCommitStats ==
  /\ ~stats.set
  /\ stats' = CommitStats(commit)
  /\ UNCHANGED <<repoVars, runVars, chanVars, walkVars, blameVars, tmplVars, commit, paths>>

CallGetFilePaths ==
  /\ ~paths.set
  /\ paths' = GetFilePaths(commit)
  /\ UNCHANGED <<repoVars, runVars, chanVars, walkVars, blameVars, tmplVars, commit, stats>>

TreeNext == CallGetCommitStats \/ CallGetFilePaths

TreeSpec == TreeInit /\ [][TreeNext]_vars

\* the lines git.Blame can return: attributed to "a" (with or without an
\* address), to "b", to a blank author, or without an author; a line is of
\* the commit of its date, and a line without an author may carry no hash
BlameLineKinds ==
  {Line(a, d, d) :
     a \in {<< >>, <<"a">>, <<"a", " ", "<", "x", ">">>, <<"b">>, <<" ">>}, d \in 1..2}
  \cup {Line(<< >>, d, 0) : d \in 1..2}

BlameInit ==
  /\ CollectorIdle
  /\ parents = << >> /\ frontier = {} /\ log = << >>
  /\ commit = NoCommit /\ stats = NoStats /\ paths = NoPaths
  /\ \E n \in 0..MaxBlame, ls \in [1..MaxBlame -> BlameLineKinds] :
       blameIn = [err |-> FALSE, lines |-> SubSeq(ls, 1, n)]
  /\ blameOut = NotBlamed
  /\ TemplateIdle

CallGetBlameForFile ==
  /\ blameOut = NotBlamed
  /\ \E top \in TopCandidates(blameIn) : blameOut' = GetBlameForFile(blameIn, top)
  /\ UNCHANGED <<repoVars, runVars, chanVars, walkVars, treeVars, tmplVars, blameIn>>

BlameNext == CallGetBlameForFile

BlameSpec == BlameInit /\ [][BlameNext]_vars

\* ------------------------------------------- the cache operations on their own
\* a collector on one of the commits, nothing cached yet
CacheInit ==
  /\ head \in 1..MaxCommits
  /\ badCommits = {} /\ numFiles = 0 /\ badFiles = {} /\ numCPU = 1
  /\ FreshAt("idle")
  /\ GitIdle

\* SaveCache: returns nil with the file written; or fails before the file is
\* created; or fails after os.Create
CallSaveCache ==
  /\ Len(trace) < MaxCalls
  /\ trace' = Append(trace, "SaveCache")
  /\ \E o \in {"ok", "failed", "torn"} :
       /\ saved' = o
       /\ cache' = [cache EXCEPT ![cachePath] =
                      CASE o = "ok" -> Entry(Data)
                        [] o = "torn" -> Unreadable
                        [] OTHER -> @]
       /\ result' = IF o = "ok" THEN "ok" ELSE ErrSaveCache
  /\ UNCHANGED <<gitVars, exit, repoVars, chanVars, Data, pc, lookup, commits, ci, collects>>

\* LoadCache
CallLoadCache ==
  /\ Len(trace) < MaxCalls
  /\ trace' = Append(trace, "LoadCache")
  /\ Data' = LoadCache(Data, cache[cachePath]).data
  /\ result' = IF LoadCache(Data, cache[cachePath]).err THEN ErrLoadCache ELSE "ok"
  /\ UNCHANGED <<gitVars, exit, repoVars, chanVars, cache, pc, lookup, saved, commits, ci, collects>>

\* ClearCache: os.Remove removes the file, or reports that there is none
\* (which is not an error), or fails and leaves the file
CallClearCache ==
  /\ Len(trace) < MaxCalls
  /\ trace' = Append(trace, "ClearCache")
  /\ IF ~CacheExists
     THEN /\ result' = "ok" /\ cache' = cache
     ELSE \E removed \in BOOLEAN :
            IF removed
            THEN /\ result' = "ok"
                 /\ cache' = [cache EXCEPT ![cachePath] = AfterRemove(@)]
            ELSE /\ result' = ErrRemoveCache /\ cache' = cache
  /\ UNCHANGED <<gitVars, exit, repoVars, chanVars, Data, pc, lookup, saved, commits, ci, collects>>

\* the dataset is filled (collectMetadata) or cleared by the caller
CallCollectMetadata ==
  /\ Len(trace) < MaxCalls
  /\ trace' = Append(trace, "collectMetadata")
  /\ Data' = collectMetadata(Data, head, Len(trace) + 1, remote, branchAt)
  /\ UNCHANGED <<gitVars, exit, repoVars, chanVars, cache, pc, result, lookup, saved, commits, ci, collects>>

ClearData ==
  /\ Len(trace) < MaxCalls
  /\ trace' = Append(trace, "clear")
  /\ Data' = EmptyData
  /\ UNCHANGED <<gitVars, exit, repoVars, chanVars, cache, pc, result, lookup, saved, commits, ci, collects>>

\* NewGitDataCollector on the repository, HEAD being at any of its commits
CallNewGitDataCollector ==
  /\ Len(trace) < MaxCalls
  /\ trace' = Append(trace, "NewGitDataCollector")
  /\ head' \in 1..MaxCommits
  /\ Data' = EmptyData
  /\ result' = "none"
  /\ UNCHANGED <<gitVars, envVars, chanVars, cache, pc, lookup, saved, commits, ci,
                 collects, exit>>

CacheNext ==
  \/ CallNewGitDataCollector
  \/ CallSaveCache
  \/ CallLoadCache
  \/ CallClearCache
  \/ CallCollectMetadata
  \/ ClearData

CacheSpec == CacheInit /\ [][CacheNext]_vars

\* ------------------------------------- the commands in any environment
\* no command has run yet; REPO_PATH is anything, and the repository, where
\* there is one, is with or without an origin remote, with HEAD on a branch,
\* detached, or unreadable when it is asked for again, and each tracked file
\* is one that cannot be blamed, one without an attributable line, or neither
EnvInit ==
  /\ GitIdle
  /\ atPath \in PathKinds
  /\ remote \in {"origin", "none"}
  /\ branchAt \in {"branch", "detached", "unreadable"}
  /\ head \in 1..MaxCommits
  /\ badCommits = {} /\ numCPU = 1
  /\ numFiles \in 0..MaxFiles
  /\ badFiles \in SUBSET (1..numFiles)
  /\ blankFiles \in SUBSET ((1..numFiles) \ badFiles)
  /\ cache = [s \in 1..MaxCommits |-> NoEntry]
  /\ Data = EmptyData /\ pc = "exited" /\ result = "none" /\ lookup = "none"
  /\ saved = "none" /\ commits = << >> /\ ci = 0 /\ trace = << >> /\ collects = 0
  /\ exit = NoExit
  /\ NoGoroutines

EnvSpec == EnvInit /\ [][Next]_vars

\* ------------------------------ a collector that finds a foreign cache file
\* the file of HEAD decodes to a dataset that fails the check of Collect, or
\* its decoding fails after that dataset has been decoded
StaleInit ==
  /\ GitIdle
  /\ PlainRepository
  /\ head \in 1..MaxCommits
  /\ badCommits = {} /\ numCPU = 1
  /\ numFiles \in 0..MaxFiles
  /\ badFiles \in SUBSET (1..numFiles)
  /\ \E e \in {Entry(StaleData), Partial(StaleData)} :
       cache = [s \in 1..MaxCommits |-> IF s = head THEN e ELSE NoEntry]
  /\ Data = EmptyData /\ pc = "idle" /\ result = "none" /\ lookup = "none"
  /\ saved = "none" /\ commits = << >> /\ ci = 0 /\ trace = << >> /\ collects = 0
  /\ exit = NoExit
  /\ NoGoroutines

StaleSpec == StaleInit /\ [][Next]_vars

\* ---------------------------------------------------------------- claims
CollectPhases == <<"meta", "walk", "blame", "reduce", "save">>

IsPrefix(s, t) == Len(s) <= Len(t) /\ \A k \in 1..Len(s) : s[k] = t[k]

Started(p) == \E k \in 1..Len(trace) : trace[k] = p

WorkersGone == \A w \in Workers : wpc[w] \in {"none", "exited"}

\* C1: a Collect that finds a cache entry which loads and passes validation
\* returns success with the loaded dataset and starts no phase and no cache
\* write; on a miss the phases start in the order metadata, Walking, Blaming,
\* Reducing, cache save, each after the previous one has finished, and a
\* Collect that reaches the cache save has started all five.
C1_HitSkipsPhasesMissRunsThemInOrder ==
  /\ (pc = "done" /\ lookup = "hit") =>
       /\ result = "ok" /\ trace = << >> /\ saved = "none"
       /\ cache[head].kind = "ok"
       /\ Data = GobDecodeInto(Data, cache[head].data)
  /\ lookup # "hit" => IsPrefix(trace, CollectPhases)
  /\ Started("blame") => ci = Len(commits) /\ commits = IterateCommits(head)
  /\ Started("reduce") => WorkersGone /\ results = << >>
  /\ saved # "none" => trace = CollectPhases

C1_Witness ==
  /\ pc = "done" /\ lookup = "hit" /\ collects = 2
  /\ Len(Data.History) = 2 /\ DOMAIN Data.Files = {1, 2}

\* C2: when history and blame were collected and SaveCache fails, Collect
\* returns no error.
C2_SaveFailureStillSucceeds ==
  (pc = "done" /\ saved \in {"failed", "torn"}) => result = "ok"

\* C3: a Collect returns from the cache only if the entry could be read and
\* decoded and the dataset in memory after the load has a commit SHA and a
\* collection timestamp; an entry that is rejected makes Collect start the
\* recomputation with the metadata, and is never the error Collect returns.
C3_RejectedEntryIsRecomputed ==
  /\ (pc = "done" /\ lookup = "hit") =>
       /\ cache[head].kind = "ok"
       /\ Data.Metadata.SHA # 0 /\ Data.Metadata.DateCollected # 0
  /\ lookup \in {"loadfail", "invalid"} =>
       /\ pc = "meta" \/ (trace # << >> /\ trace[1] = "meta")
       /\ pc = "done" => Len(trace) >= 2
       /\ result # "ok" \/ saved = "ok"

C3_Witness ==
  /\ lookup = "invalid" /\ pc = "done" /\ saved = "ok" /\ collects = 1
  /\ cache[head].data.Metadata.SHA = head

\* C4 as claimed: a Collect that ends before the cache save (so on a failure
\* to list the commit log or the files at HEAD) returns success.
C4_ListingFailureAbsorbed ==
  (pc = "done" /\ saved = "none") => result = "ok"

\* C4 as amended: a failing commit or a failing file never ends Collect, and
\* while commits and files are processed no error is set; a failure to list
\* the commit log or to list the files at HEAD is returned by Collect, which
\* then has started no later phase.
C4_OnlyListingFailuresAbort ==
  /\ pc \in {"commits", "blame", "distribute", "drain", "reduce", "save"} =>
       result = "none"
  /\ (pc = "done" /\ saved = "none" /\ lookup # "hit") =>
       \/ result = ErrIterateCommits /\ trace = <<"meta", "walk">>
       \/ result = ErrBlameData /\ trace = <<"meta", "walk", "blame">>
  /\ (pc = "save" /\ lookup # "hit") => Len(Data.History) >= head - Cardinality(badCommits)

C4_Witness ==
  /\ pc = "done" /\ result = ErrBlameData /\ badCommits = {1} /\ head = 2
  /\ Len(Data.History) = 1

\* paths with at least one blamed line that has an author
HasAttributedLine(p) ==
  \E k \in 1..Len(BlameLinesOf(p)) : BlameLinesOf(p)[k].Author # << >>

\* C5: when Blaming has returned (without an error), Files holds a summary
\* for every path whose blame succeeded with an attributed line, and for no
\* path whose blame failed.
C5_FailingPathsAreOmitted ==
  (pc = "reduce" /\ trace = <<"meta", "walk", "blame">>) =>
     /\ result = "none"
     /\ \A p \in Paths :
          /\ (p \notin badFiles /\ HasAttributedLine(p)) => p \in DOMAIN Data.Files
          /\ p \in badFiles => p \notin DOMAIN Data.Files

C5_Witness ==
  /\ pc = "reduce" /\ numFiles = 2 /\ badFiles = {1} /\ DOMAIN Data.Files = {2}

\* C6: while Reducing or the cache save is next, every worker has exited, no
\* result is left in the channel and the channel has been closed; and no
\* step taken then changes Files.
C6_ReduceAfterPoolDrained ==
  /\ [](pc \in {"reduce", "save"} =>
          /\ WorkersGone
          /\ results = << >> /\ jobs = << >> /\ wg = 0
          /\ (numFiles > 0 => resultsClosed /\ closer = "done"))
  /\ [][(pc \in {"reduce", "save"}) => (Data.Files)' = Data.Files]_vars

C6_Witness ==
  /\ pc = "reduce" /\ pool.started = 2 /\ pool.received = 2 /\ wg = 0

\* lines of contributor n in the summary of path p, 0 where either is absent
LinesInFile(p, n) ==
  IF p \in DOMAIN Data.Files
  THEN IF n \in DOMAIN Data.Files[p].LinesByContributor
       THEN Data.Files[p].LinesByContributor[n] ELSE 0
  ELSE 0

RECURSIVE LinesUpTo(_, _)
LinesUpTo(k, n) == IF k = 0 THEN 0 ELSE LinesInFile(k, n) + LinesUpTo(k - 1, n)

\* C7: after Reducing, every contributor's ActiveLines is the sum of the
\* contributor's lines over all summaries of Files.
C7_ActiveLinesIsSumOverFiles ==
  (pc = "save" \/ (pc = "done" /\ saved # "none")) =>
     /\ DOMAIN Data.Files \subseteq 1..MaxFiles
     /\ \A n \in DOMAIN Data.Contributors :
          Data.Contributors[n].ActiveLines = LinesUpTo(MaxFiles, n)

C7_Witness ==
  /\ pc = "save" /\ <<"a">> \in DOMAIN Data.Contributors
  /\ Data.Contributors[<<"a">>].ActiveLines = 3
  /\ <<"b">> \in DOMAIN Data.Contributors
  /\ Data.Contributors[<<"b">>].ActiveLines = 1

\* C8: the result channel is closed at most once during a Blaming, only when
\* every worker has exited, and exactly once by the time the drain has ended;
\* no worker sends on the closed channel.
C8_ResultsClosedOnceAfterWorkers ==
  /\ pool.closes <= 1
  /\ ~pool.lateSend
  /\ resultsClosed => (WorkersGone /\ pool.closes = 1)
  /\ (pc = "reduce" /\ numFiles > 0) => pool.closes = 1

C8_Witness ==
  /\ resultsClosed /\ pool.closes = 1 /\ pool.started = 2 /\ pc = "drain"
  /\ Len(results) = 2

\* C9: no path is taken from the work queue twice, none yields two results,
\* none is written to Files twice in a run; when the drain has ended every
\* path was taken once and has yielded one result, and the consumer has
\* received as many results as there are paths.
C9_EachPathOnce ==
  /\ \A p \in DOMAIN pool.taken :
       /\ pool.taken[p] <= 1
       /\ pool.produced[p] <= pool.taken[p]
       /\ pool.written[p] <= pool.produced[p]
  /\ pool.received <= numFiles
  /\ (pc = "reduce" /\ numFiles > 0) =>
       /\ DOMAIN pool.taken = Paths
       /\ \A p \in Paths : pool.taken[p] = 1 /\ pool.produced[p] = 1
       /\ pool.received = numFiles

C9_Witness ==
  /\ pc = "reduce" /\ numFiles = 2 /\ numCPU = 2 /\ pool.received = 2
  /\ pool.written = <<1, 1>>

\* C10: a Blaming that has started its workers ends: all workers exit, the
\* result channel is closed and the drain ends.
C10_BlamingTerminates ==
  (pc = "distribute") ~>
     (pc = "reduce" /\ WorkersGone /\ resultsClosed /\ results = << >>)

C10_Witness ==
  /\ pc = "reduce" /\ numFiles = 2 /\ numCPU = 1 /\ pool.started = 1
  /\ resultsClosed /\ closer = "done"

\* workers that have been started and have not returned
LiveWorkers == {w \in Workers : wpc[w] \in {"recv", "send"}}

\* workers inside GetBlameForFile or holding its result
InFlight == {w \in Workers : wpc[w] = "send"}

\* C11: the number of workers started is the smaller of the available
\* parallelism and the number of tracked paths, and never more blame
\* operations are in flight than that; with no tracked path no worker is
\* started, Blaming returns without an error and Files stays empty.
C11_PoolSizeIsMinOfCpuAndPaths ==
  /\ pc \in {"distribute", "drain"} =>
       /\ numFiles > 0
       /\ pool.started <= numCPU /\ pool.started <= numFiles
       /\ pool.started = numCPU \/ pool.started = numFiles
       /\ Cardinality({w \in Workers : wpc[w] # "none"}) = pool.started
  /\ Cardinality(LiveWorkers) <= numCPU /\ Cardinality(LiveWorkers) <= numFiles
  /\ Cardinality(InFlight) <= numCPU /\ Cardinality(InFlight) <= numFiles
  /\ numFiles = 0 =>
       /\ \A w \in Workers : wpc[w] = "none"
       /\ pool = NoPool /\ wg = 0 /\ closer = "none"
       /\ Data.Files = EmptyMap
       /\ pc = "reduce" => result = "none"
       /\ result # ErrBlameData => pc \notin {"distribute", "drain"}

C11_Witness ==
  /\ pc = "drain" /\ numCPU = 2 /\ numFiles = 1 /\ pool.started = 1
  /\ Cardinality(InFlight) = 1

\* the summaries the blame results of this call amount to
ExpectedFiles ==
  [p \in {q \in DOMAIN pool.blamed :
            ~pool.blamed[q].Err /\ pool.blamed[q].Stats.TotalLines > 0} |->
     pool.blamed[p].Stats]

RECURSIVE ExpectedLines(_, _)
ExpectedLines(k, n) ==
  IF k = 0 THEN 0
  ELSE (IF k \in DOMAIN ExpectedFiles THEN LinesOf(ExpectedFiles[k], n) ELSE 0)
       + ExpectedLines(k - 1, n)

\* C12: whatever the interleaving of the workers and the order in which the
\* results arrive, Files after Blaming is the map from each path to what its
\* blame returned (paths that failed or have no attributed line left out),
\* and every contributor's ActiveLines after Reducing is the sum over it.
C12_MergeIndependentOfArrivalOrder ==
  /\ (pc = "reduce" /\ numFiles > 0) => Data.Files = ExpectedFiles
  /\ (pc = "save" /\ numFiles > 0) =>
       /\ Data.Files = ExpectedFiles
       /\ \A n \in DOMAIN Data.Contributors :
            Data.Contributors[n].ActiveLines = ExpectedLines(numFiles, n)

C12_Witness ==
  /\ pc = "save" /\ numFiles = 2 /\ numCPU = 2 /\ pool.started = 2
  /\ DOMAIN Data.Files = {1, 2}
  /\ Data.Files[2].TopContributor.name = <<"b">>
  /\ Data.Contributors[<<"a">>].ActiveLines = 3

\* the commits recorded in History, by hash
HistoryHashes == [k \in 1..Len(Data.History) |-> Data.History[k].Commit]

\* the first k commits of the branch whose statistics can be computed
GoodUpTo(k) == SelectSeq([i \in 1..k |-> i], LAMBDA i : i \notin badCommits)

HistoryEndsWith(s) ==
  /\ Len(s) <= Len(HistoryHashes)
  /\ SubSeq(HistoryHashes, Len(HistoryHashes) - Len(s) + 1, Len(HistoryHashes)) = s

\* C14: in the loop over the commits a commit whose statistics fail adds
\* nothing to History and the loop goes on with the next commit; no step of
\* the loop ends Collect or sets an error; the walk adds to History exactly
\* the commits that were processed, in walk order, and on a collector's first
\* Collect History is exactly that.
C14_FailedCommitIsSkipped ==
  /\ [](/\ result # ErrCommit
        /\ pc = "commits" =>
             /\ result = "none" /\ commits = IterateCommits(head)
             /\ HistoryEndsWith(GoodUpTo(ci))
        /\ pc \in {"blame", "distribute", "drain", "reduce", "save"} =>
             /\ ci = head /\ HistoryEndsWith(GoodUpTo(head))
             /\ collects = 1 => HistoryHashes = GoodUpTo(head))
  /\ [][(pc = "commits" /\ ci' = ci + 1) =>
          /\ pc' = "commits" /\ result' = result
          /\ HistoryHashes' = IF ci' \in badCommits THEN HistoryHashes
                              ELSE Append(HistoryHashes, ci')]_vars

C14_Witness ==
  /\ pc = "blame" /\ head = 2 /\ badCommits = {1} /\ collects = 1
  /\ HistoryHashes = <<2>>

\* C19: a collector with a cleared dataset that loads the entry of its HEAD
\* holds the dataset that was saved, field for field.
C19_RoundTripYieldsSavedDataset ==
  [][(pc = "idle" /\ Data = EmptyData /\ lookup' = "hit") =>
       Data' = cache[head].data]_vars

\* the sum of field fld over the entries of a per-file statistics map
RECURSIVE PerFileTotal(_, _, _)
PerFileTotal(fc, fld, k) ==
  IF k = 0 THEN 0
  ELSE (IF k \in DOMAIN fc THEN fc[k][fld] ELSE 0) + PerFileTotal(fc, fld, k - 1)

\* C15: for a commit with a parent, the insertions and deletions that
\* GetCommitStats returns are the sums of the per-file insertions and
\* deletions of its FilesChanged map.
C15_TotalsAreSumsOverChangedFiles ==
  (stats.set /\ commit.NumParents > 0) =>
     /\ stats.insertions = PerFileTotal(stats.filesChanged, "Insertions", Len(commit.files))
     /\ stats.deletions = PerFileTotal(stats.filesChanged, "Deletions", Len(commit.files))

\* the lines of the first k files of the commit
RECURSIVE TreeLines(_)
TreeLines(k) == IF k = 0 THEN 0 ELSE commit.files[k].lines + TreeLines(k - 1)

\* C16: for a commit without parents whose tree holds only non-binary files
\* with L lines together, GetCommitStats returns L insertions and no
\* deletions, and every file of the tree has an entry whose insertions and
\* line count are the file's own line count and whose deletions are 0.
C16_InitialCommitCountsEveryLine ==
  (stats.set /\ commit.NumParents = 0
     /\ \A k \in 1..Len(commit.files) : ~commit.files[k].bin) =>
     /\ stats.insertions = TreeLines(Len(commit.files))
     /\ stats.deletions = 0
     /\ DOMAIN stats.filesChanged = 1..Len(commit.files)
     /\ \A k \in 1..Len(commit.files) :
          /\ stats.filesChanged[k].Insertions = commit.files[k].lines
          /\ stats.filesChanged[k].Lines = commit.files[k].lines
          /\ stats.filesChanged[k].Deletions = 0

C16_Witness ==
  /\ stats.set /\ commit.NumParents = 0 /\ Len(commit.files) = 2
  /\ ~commit.files[1].bin /\ ~commit.files[2].bin
  /\ stats.insertions = 3

\* the commit with every binary file replaced by an empty unchanged text file
WithoutBinaries(c) ==
  [c EXCEPT !.files =
     [k \in 1..Len(c.files) |-> IF c.files[k].bin THEN TextFile(0, 0, 0) ELSE c.files[k]]]

\* C17: a file detected as binary is not in the list GetFilePaths returns
\* (the only paths Blaming sees), the totals GetCommitStats returns are what
\* they would be without the binary files, and a binary file has either no
\* per-file entry or one whose counts are all 0.
C17_BinaryFilesContributeNothing ==
  \A k \in 1..Len(commit.files) : commit.files[k].bin =>
     /\ paths.set =>
          /\ \A j \in 1..Len(paths.list) : paths.list[j] # k
          /\ \A j \in 1..Len(commit.files) :
               ~commit.files[j].bin => \E i \in 1..Len(paths.list) : paths.list[i] = j
     /\ stats.set =>
          /\ stats.insertions = CommitStats(WithoutBinaries(commit)).insertions
          /\ stats.deletions = CommitStats(WithoutBinaries(commit)).deletions
          /\ k \in DOMAIN stats.filesChanged =>
               /\ commit.NumParents > 0
               /\ stats.filesChanged[k] = [Insertions |-> 0, Deletions |-> 0, Lines |-> 0]

C17_Witness ==
  /\ paths.set /\ stats.set /\ commit.NumParents = 1 /\ Len(commit.files) = 2
  /\ commit.files[1].bin /\ commit.files[1].changed
  /\ ~commit.files[2].bin /\ commit.files[2].add = 2
  /\ stats.insertions = 2 /\ paths.list = <<2>>

\* the lines of a blame result that have an author
Attributed(lines) == SelectSeq(lines, LAMBDA l : l.Author # << >>)

\* C18: in every summary GetBlameForFile produces, the values of
\* LinesByContributor add up to TotalLines, which is the number of lines of
\* the blame result that have an author, whatever the mix of lines.
C18_LinesByContributorSumToTotal ==
  blameOut # NotBlamed =>
     /\ ~blameOut.Err
     /\ SumOver(blameOut.Stats.LinesByContributor,
                DOMAIN blameOut.Stats.LinesByContributor) = blameOut.Stats.TotalLines
     /\ blameOut.Stats.TotalLines = Len(Attributed(blameIn.lines))

C18_Witness ==
  /\ blameOut # NotBlamed /\ Len(blameIn.lines) = 3
  /\ blameIn.lines[2].Author = << >>
  /\ blameOut.Stats.TotalLines = 2
  /\ blameOut.Stats.LinesByContributor = [n \in {<<"a">>} |-> 2]

\* HEAD and everything reachable from it over parent links
RECURSIVE Reachable(_)
Reachable(S) ==
  LET T == S \cup UNION {parents[c] : c \in S}
  IN IF T = S THEN S ELSE Reachable(T)

\* C13: commits being created with strictly increasing times, what
\* IterateCommits returns is the commits reachable from HEAD, each once,
\* oldest first and ending with HEAD, whatever the shape of the graph the
\* log has to traverse (C1..Cn when all are reachable); the History built
\* from it is non-decreasing in commit time.
C13_WalkIsOldestFirst ==
  pc = "commits" =>
     /\ {commits[k].Hash : k \in 1..Len(commits)} = Reachable({head})
     /\ Len(commits) = Cardinality(Reachable({head}))
     /\ \A k \in 1..(Len(commits) - 1) : commits[k].When < commits[k + 1].When
     /\ commits[Len(commits)].Hash = head
     /\ Reachable({head}) = 1..head => commits = [k \in 1..head |-> CommitIn(parents, k)]
     /\ \A k \in 1..(Len(Data.History) - 1) :
          Data.History[k].Date <= Data.History[k + 1].Date
     /\ ci = Len(commits) =>
          HistoryHashes = SelectSeq([k \in 1..Len(commits) |-> commits[k].Hash],
                                    LAMBDA h : h \notin badCommits)

C13_Witness ==
  /\ pc = "commits" /\ ci = Len(commits) /\ head = 4 /\ badCommits = {}
  /\ parents[4] = {2, 3} /\ parents[3] = {1} /\ parents[2] = {1}
  /\ HistoryHashes = <<1, 2, 3, 4>>

\* the call that a step of the cache operations makes
Calls(op) == trace' = Append(trace, op)

\* C20 as claimed: the entry of the collector's HEAD does not exist before a
\* save, exists after a successful SaveCache, and does not exist after any
\* ClearCache; ClearCache without an entry returns no error and changes
\* nothing.
C20_ExistsAfterSaveGoneAfterClear ==
  /\ []((\A k \in 1..Len(trace) : trace[k] # "SaveCache") => ~CacheExists)
  /\ [][(Calls("SaveCache") /\ result' = "ok") => cache'[head].kind # "absent"]_vars
  /\ [][Calls("ClearCache") => cache'[head].kind = "absent"]_vars
  /\ [][(Calls("ClearCache") /\ ~CacheExists) =>
          (result' = "ok" /\ cache' = cache /\ Data' = Data)]_vars

\* C20 as amended: as above, but the entry is gone after a ClearCache that
\* returns no error; a ClearCache that cannot remove the file returns the
\* error and leaves the entry, so CacheExists stays true.
C20_ExistsAfterSaveGoneAfterSuccessfulClear ==
  /\ []((\A k \in 1..Len(trace) : trace[k] # "SaveCache") => ~CacheExists)
  /\ [][(Calls("SaveCache") /\ result' = "ok") =>
          (cache'[head].kind = "ok" /\ cache'[head].data = Data)]_vars
  /\ [][(Calls("ClearCache") /\ result' = "ok") => cache'[head].kind = "absent"]_vars
  /\ [][(Calls("ClearCache") /\ result' # "ok") =>
          (CacheExists /\ result' = ErrRemoveCache /\ cache' = cache)]_vars
  /\ [][(Calls("ClearCache") /\ ~CacheExists) =>
          (result' = "ok" /\ cache' = cache /\ Data' = Data)]_vars

C20_Witness ==
  /\ trace = <<"SaveCache", "ClearCache", "ClearCache">>
  /\ saved = "ok" /\ result = "ok" /\ ~CacheExists

\* C21: the entry a collector reads, writes and removes is the one named by
\* its HEAD; no save, load or clear changes the entry of another HEAD, and a
\* new collector changes none, so the entries of earlier HEADs stay; an entry
\* holds only what a collector on its own HEAD saved, and a load succeeds only
\* from the entry of the collector's HEAD.
C21_EntriesOfOtherHeadsUntouched ==
  /\ [](/\ CacheExists <=> cache[head].kind # "absent"
        /\ \A s \in 1..MaxCommits :
             cache[s].kind = "ok" => cache[s].data.Metadata.SHA \in {0, s})
  /\ [][\A s \in 1..MaxCommits : s # head => cache'[s] = cache[s]]_vars
  /\ [][head' # head => cache' = cache]_vars
  /\ [][(Calls("LoadCache") /\ result' = "ok") =>
          (cache[head].kind = "ok" /\ Data' = GobDecodeInto(Data, cache[head].data))]_vars
  /\ [][(Calls("LoadCache") /\ cache[head].kind = "absent") =>
          (result' = ErrLoadCache /\ Data' = Data)]_vars

C21_Witness ==
  /\ trace = <<"SaveCache", "NewGitDataCollector", "SaveCache", "ClearCache">>
  /\ head = 2 /\ cache[1].kind = "ok" /\ cache[2].kind = "absent" /\ saved = "ok"

\* C22: when the repository cannot be opened or its HEAD cannot be resolved,
\* NewGitDataCollector returns the error and there is no collector: no
\* Collect is started on it, so no phase runs, no goroutine is started and
\* the cache is neither looked up nor written; the error only ends the
\* command.
C22_NoCollectorWithoutRepositoryAndHead ==
  /\ [](result \in {ErrOpenRepository, ErrHeadCommit} =>
          /\ pc \in {"failed", "exited"}
          /\ Data = EmptyData /\ trace = << >> /\ lookup = "none" /\ saved = "none"
          /\ NoGoroutines)
  /\ [][(pc' = "failed" \/ pc = "failed") => cache' = cache]_vars
  /\ [][(pc = "failed") => (pc' = "exited" /\ Data' = Data /\ collects' = collects)]_vars

C22_Witness ==
  /\ pc = "failed" /\ result = ErrHeadCommit /\ collects = 1
  /\ cache[head].kind = "ok" /\ cache[head].data.Metadata.SHA = head

\* C23: the metadata hold "unknown" as the URL when the remote URL cannot be
\* determined and "<HEAD sha> (error determining branch)" as the branch when
\* the branch cannot be determined, and otherwise what was determined; the
\* metadata step always goes on to the walk without an error, and no error
\* Collect returns comes from it.
C23_MetadataFailuresAreAbsorbed ==
  /\ [](Data.Metadata.SHA # 0 =>
          /\ Data.Metadata.URL = IF remote = "none" THEN "unknown" ELSE "https://origin"
          /\ Data.Metadata.Branch =
               CASE branchAt = "unreadable" ->
                      <<Data.Metadata.SHA, " (error determining branch)">>
                 [] branchAt = "detached" -> <<Data.Metadata.SHA, " (detached)">>
                 [] OTHER -> <<"main">>)
  /\ []((pc = "done" /\ result # "ok") =>
          result \in {ErrIterateCommits, ErrBlameData, ErrSaveCache})
  /\ [][(pc = "meta") =>
          (pc' = "walk" /\ result' = "none" /\ trace' = <<"meta">>
             /\ Data'.Metadata.SHA = head)]_vars

C23_Witness ==
  /\ pc = "done" /\ result = "ok" /\ saved = "ok" /\ trace = CollectPhases
  /\ remote = "none" /\ branchAt = "unreadable"
  /\ Data.Metadata.URL = "unknown"
  /\ Data.Metadata.Branch = <<head, " (error determining branch)">>

\* C24: when REPO_PATH does not exist, is not a directory, or holds neither
\* .git nor HEAD, the command ends with status 1 and the matching error, and
\* no collector is ever created, no Collect started and no cache entry
\* written; every error of the creation of the collector or of Collect ends
\* the command with status 1, and status 0 is only given when a Collect has
\* returned success.
C24_CollectCommandExitStatus ==
  /\ [](/\ atPath \in {"missing", "file", "directory"} =>
             /\ pc \in {"exited", "failed"} /\ exit \in {NoExit, 1}
             /\ collects = 0 /\ lookup = "none" /\ Data = EmptyData
             /\ cache = [s \in 1..MaxCommits |-> NoEntry]
             /\ pc = "failed" =>
                  result = CASE atPath = "missing" -> ErrPathMissing
                             [] atPath = "file" -> ErrNotDirectory
                             [] OTHER -> ErrNotRepository
        /\ atPath \in {"git", "bare"} =>
             result \notin {ErrPathMissing, ErrNotDirectory, ErrNotRepository}
        /\ exit = 0 => (pc = "exited" /\ result = "ok" /\ lookup # "none")
        /\ (pc = "exited" /\ result # "ok") => exit \in {NoExit, 1}
        /\ (pc = "exited" /\ exit = NoExit) => result = "none")
  /\ [][(pc = "exited") => cache' = cache]_vars
  /\ [][(pc # "exited" /\ pc' = "exited") =>
          (exit' = IF result = "ok" THEN 0 ELSE 1)]_vars

C24_Witness ==
  /\ pc = "exited" /\ exit = 1 /\ atPath = "directory" /\ result = ErrNotRepository

\* the records of History whose committer has display name n
RecordsOf(n) ==
  {k \in 1..Len(Data.History) : DisplayName(Data.History[k].Contributor[1]) = n}

\* C25: the commits recorded in History are aggregated by the display name
\* of their committer, whatever their email: every record's display name has
\* a contributor entry, the entry counts the records of that name, and its
\* identities are the emails of those records, each exactly once.
C25_OneEntryPerNameDistinctEmails ==
  /\ \A k \in 1..Len(Data.History) :
       DisplayName(Data.History[k].Contributor[1]) \in DOMAIN Data.Contributors
  /\ \A n \in DOMAIN Data.Contributors :
       LET ids == Data.Contributors[n].Identities.items
       IN /\ \A i, j \in 1..Len(ids) : ids[i] = ids[j] => i = j
          /\ {ids[k] : k \in 1..Len(ids)} =
               {Data.History[k].Contributor[2] : k \in RecordsOf(n)}
          /\ Data.Contributors[n].CommitCount = Cardinality(RecordsOf(n))

C25_Witness ==
  /\ pc = "commits" /\ ci = 4 /\ Len(Data.History) = 4
  /\ DOMAIN Data.Contributors = {<<"a">>, <<"b">>}
  /\ Data.Contributors[<<"a">>].Identities.items = <<"x", "y">>
  /\ Data.Contributors[<<"a">>].CommitCount = 2
  /\ Data.Contributors[<<"b">>].Identities.items = <<"x">>
  /\ Data.Contributors[<<"b">>].CommitCount = 2

\* C27: in a summary with at least one attributed line, DateIntroduced is
\* the latest date among the lines that have an author, and OriginalAuthor
\* is the display name of the first line, in file order, that has an author.
C27_LatestDateAndFirstAuthor ==
  (blameOut # NotBlamed /\ blameOut.Stats.TotalLines > 0) =>
     LET att == Attributed(blameIn.lines)
     IN /\ \E k \in 1..Len(att) : blameOut.Stats.DateIntroduced = att[k].Date
        /\ \A k \in 1..Len(att) : att[k].Date <= blameOut.Stats.DateIntroduced
        /\ blameOut.Stats.OriginalAuthor = DisplayName(att[1].Author)

C27_Witness ==
  /\ blameOut # NotBlamed /\ Len(blameIn.lines) = 3
  /\ blameIn.lines[1].Author = << >>
  /\ blameIn.lines[2] = Line(<<"a", " ", "<", "x", ">">>, 1, 1)
  /\ blameIn.lines[3] = Line(<<"b">>, 2, 2)
  /\ blameOut.Stats.OriginalAuthor = <<"a">>
  /\ blameOut.Stats.DateIntroduced = 2

\* C26: every summary in Files has at least one line and belongs to a
\* tracked path; a tracked path whose blame succeeds without a line that has
\* an author (an empty file, or lines without an author) never has a summary,
\* also when Blaming has returned and its blame has been received.
C26_NoSummaryWithoutAttributedLine ==
  /\ \A p \in DOMAIN Data.Files : p \in Paths /\ Data.Files[p].TotalLines >= 1
  /\ \A p \in blankFiles : p \notin DOMAIN Data.Files
  /\ pc = "reduce" =>
       \A p \in blankFiles :
          /\ ~pool.blamed[p].Err /\ pool.blamed[p].Stats.TotalLines = 0
          /\ pool.produced[p] = 1 /\ pool.written[p] = 0

C26_Witness ==
  /\ pc = "reduce" /\ numFiles = 2 /\ blankFiles = {2} /\ badFiles = {}
  /\ DOMAIN Data.Files = {1} /\ Data.Files[1].TotalLines = 3
  /\ pool.blamed[2].Stats.TotalCommits = 1 /\ pool.received = 2

\* the loop of Collect over the commits, from dataset d
RECURSIVE WalkAll(_, _, _)
WalkAll(d, cs, k) ==
  IF k > Len(cs) THEN d ELSE WalkAll(collectCommitData(d, cs[k]), cs, k + 1)

\* what the walk leaves in a dataset that was empty
FreshWalk == WalkAll(EmptyData, IterateCommits(head), 1)

\* C28: when the first Collect of a collector has rejected the cache entry
\* (it failed the validation, or its decoding failed), the recomputed dataset
\* is the one a collection without a cache entry produces: after the walk
\* History and Contributors are those of a walk from an empty dataset, Files
\* holds only tracked paths, and the same holds for the entry written.
C28_RejectedEntryLeavesNoTrace ==
  (lookup \in {"invalid", "loadfail"} /\ collects = 1) =>
     /\ pc \in {"blame", "save"} =>
          /\ Data.History = FreshWalk.History
          /\ DOMAIN Data.Contributors = DOMAIN FreshWalk.Contributors
          /\ DOMAIN Data.Files \subseteq Paths
     /\ (pc = "done" /\ saved = "ok") =>
          /\ cache[head].data.History = FreshWalk.History
          /\ DOMAIN cache[head].data.Contributors = DOMAIN FreshWalk.Contributors
          /\ DOMAIN cache[head].data.Files \subseteq Paths

\* the commits of the branch up to HEAD whose committer has display name n
\* and whose statistics can be computed
CommitsOf(n) ==
  {c \in 1..head : DisplayName(CommitterNameOf(c)) = n /\ c \notin badCommits}

\* C29: whenever a Collect of a collector has returned success, whatever
\* Collect calls the collector has seen before (one whose cache save failed
\* among them), History holds no commit twice and every contributor's commit
\* count is the number of the contributor's commits on the branch.
C29_RepeatedCollectCountsEachCommitOnce ==
  (pc = "done" /\ result = "ok") =>
     /\ \A i, j \in 1..Len(Data.History) :
          Data.History[i].Commit = Data.History[j].Commit => i = j
     /\ \A n \in DOMAIN Data.Contributors :
          Data.Contributors[n].CommitCount = Cardinality(CommitsOf(n))

\* C30: a SaveCache that returns an error leaves no entry for HEAD where
\* there was none, and leaves an entry that could be loaded as it was.
C30_FailedSaveLeavesEntryAsItWas ==
  [][(Calls("SaveCache") /\ result' # "ok") =>
       /\ cache[head].kind = "absent" => cache'[head].kind = "absent"
       /\ cache[head].kind = "ok" => cache'[head] = cache[head]]_vars

\* C31: a turn of the loop over the commits whose commit cannot be processed
\* leaves the dataset as it was: no History record, no new contributor entry,
\* no change of a commit count, of insertions or deletions, or of identities.
C31_FailedCommitChangesNothing ==
  [][(pc = "commits" /\ ci' = ci + 1 /\ GetCommitStats(commits[ci']).err) =>
       Data' = Data]_vars

\* the sum of field fld over the History records in K
HistorySum(fld, K) ==
  SumOver([k \in 1..Len(Data.History) |-> Data.History[k][fld]], K)

\* C32: on a fresh collector, after every turn of the walk and so when the
\* walk is over, each contributor's commit count is the number of History
\* records of that display name, its insertions and deletions are the sums
\* over those records, and every record's committer has an entry.
C32_CountersAreTotalsOverHistory ==
  /\ \A n \in DOMAIN Data.Contributors :
       /\ Data.Contributors[n].CommitCount = Cardinality(RecordsOf(n))
       /\ Data.Contributors[n].Insertions = HistorySum("Insertions", RecordsOf(n))
       /\ Data.Contributors[n].Deletions = HistorySum("Deletions", RecordsOf(n))
  /\ \A k \in 1..Len(Data.History) :
       DisplayName(Data.History[k].Contributor[1]) \in DOMAIN Data.Contributors

C32_Witness ==
  /\ pc = "commits" /\ ci = Len(commits) /\ Len(Data.History) = 4
  /\ Data.Contributors[<<"a">>].Insertions = 4
  /\ Data.Contributors[<<"a">>].Deletions = 2
  /\ Data.Contributors[<<"b">>].Insertions = 6
  /\ Data.Contributors[<<"b">>].Deletions = 4

\* C33: when Reducing is over, every name that has lines in some file
\* summary has a contributor entry, and the ActiveLines of all contributors
\* add up to the TotalLines of all file summaries.
C33_ActiveLinesAddUpToTotalLines ==
  pc = "save" =>
    /\ \A p \in DOMAIN Data.Files :
         DOMAIN Data.Files[p].LinesByContributor \subseteq DOMAIN Data.Contributors
    /\ SumOver([n \in DOMAIN Data.Contributors |-> Data.Contributors[n].ActiveLines],
               DOMAIN Data.Contributors)
         = SumOver([p \in DOMAIN Data.Files |-> Data.Files[p].TotalLines],
                   DOMAIN Data.Files)

\* --------------------------------------------------- the report command
\* sort.SliceStable(History, less) with less(i, j) = History[i].Date.After(
\* History[j].Date): x goes behind the records that are not older than it
InsertByDate(s, x) ==
  LET pos == Cardinality({i \in 1..Len(s) : s[i].Date >= x.Date})
  IN SubSeq(s, 1, pos) \o <<x>> \o SubSeq(s, pos + 1, Len(s))

RECURSIVE SortSliceStable(_, _, _)
SortSliceStable(acc, h, k) ==
  IF k > Len(h) THEN acc ELSE SortSliceStable(InsertByDate(acc, h[k]), h, k + 1)

ErrPrepareReport == "failed to prepare report data"
ErrWriteReport == "failed to write report"

ReportFormats == {"html", "json"}

\* reportCmd after its Collect has returned nil: the collector holds the
\* dataset of the branch up to HEAD
ReportInit ==
  /\ GitIdle
  /\ PlainRepository
  /\ head \in 1..MaxLog
  /\ badCommits \in SUBSET (1..head)
  /\ numFiles = 0 /\ badFiles = {} /\ numCPU = 1
  /\ cache = [s \in 1..MaxCommits |-> NoEntry]
  /\ Data = collectMetadata(WalkAll(EmptyData, IterateCommits(head), 1),
                            head, 1, remote, branchAt)
  /\ pc = "done" /\ result = "ok" /\ lookup = "miss"
  /\ saved = "ok" /\ commits = IterateCommits(head) /\ ci = head
  /\ trace = << >> /\ collects = 1
  /\ exit = NoExit
  /\ NoGoroutines

\* adapter.PrepareData(&col.Data): the HTML adapter keeps the pointer, sorts
\* History through it and then renders, which can fail (no template file,
\* template error); the JSON adapter marshals the dataset
reportPrepare ==
  /\ pc = "done" /\ result = "ok" /\ trace = << >>
  /\ \E f \in ReportFormats :
       /\ trace' = Append(trace, f)
       /\ IF f = "html"
          THEN /\ Data' = [Data EXCEPT !.History = SortSliceStable(<< >>, @, 1)]
               /\ \E ok \in BOOLEAN :
                    IF ok THEN pc' = "prepared" /\ result' = result
                    ELSE pc' = "failed" /\ result' = ErrPrepareReport
          ELSE /\ Data' = Data /\ pc' = "prepared" /\ result' = result
  /\ UNCHANGED <<gitVars, exit, repoVars, chanVars, cache, lookup, saved, commits, ci, collects>>

\* adapter.Write(absOutputFilePath)
reportWrite ==
  /\ pc = "prepared"
  /\ \E ok \in BOOLEAN :
       /\ result' = IF ok THEN "ok" ELSE ErrWriteReport
       /\ pc' = IF ok THEN "done" ELSE "failed"
  /\ trace' = Append(trace, "write")
  /\ UNCHANGED <<gitVars, exit, repoVars, chanVars, cache, Data, lookup, saved, commits, ci, collects>>

ReportNext == reportPrepare \/ reportWrite \/ CmdExit

ReportSpec == ReportInit /\ [][ReportNext]_vars

OldestFirst(h) == \A i, j \in 1..Len(h) : i < j => h[i].Date <= h[j].Date

\* C34: preparing a report, JSON or HTML, leaves the dataset as it was, and
\* History is still oldest first afterwards.
C34_PreparingAReportLeavesTheDataset ==
  [][(pc = "done" /\ \E f \in ReportFormats : trace' = <<f>>) =>
       /\ Data' = Data
       /\ OldestFirst(Data'.History)]_vars

\* the entries the program has written completely: the files found at the
\* start are absent, unreadable or decode to the empty dataset
Written(e) == e.kind = "ok" /\ e.data # EmptyData

\* C35: over all Collect calls, collectors and HEAD commits, an entry that is
\* written under the key of commit K holds a dataset whose snapshot commit is
\* K and whose collection date is set; such entries stay as they are, and a
\* Collect that finds one for its HEAD loads it and accepts it.
C35_WrittenEntriesAreValidForTheirKey ==
  /\ [](\A s \in 1..MaxCommits :
          Written(cache[s]) =>
            /\ cache[s].data.Metadata.SHA = s
            /\ cache[s].data.Metadata.DateCollected # 0)
  /\ [][(\A s \in 1..MaxCommits :
            (cache'[s] # cache[s] /\ cache'[s].kind = "ok") =>
               (/\ s = head /\ pc = "save"
                /\ cache'[s].data.Metadata.SHA = s
                /\ cache'[s].data.Metadata.DateCollected # 0))
         /\ ((collects' = collects + 1 /\ Written(cache[head])) =>
               (lookup' = "hit" /\ result' = "ok"))]_vars

C35_Witness ==
  /\ pc = "done" /\ collects = 2 /\ head = 2 /\ saved = "ok"
  /\ Written(cache[1]) /\ cache[1].data.Metadata.SHA = 1
  /\ Written(cache[2]) /\ cache[2].data.Metadata.SHA = 2
  /\ cache[2].data.Metadata.DateCollected = 2

\* C36: whatever lines the blame result holds, lines without an author or
\* without a commit hash among them, a file summary's TotalCommits is at
\* least 1 and at most its TotalLines.
C36_TotalCommitsBetweenOneAndTotalLines ==
  (~blameOut.Err /\ blameOut.Stats.TotalLines > 0) =>
     /\ 1 <= blameOut.Stats.TotalCommits
     /\ blameOut.Stats.TotalCommits <= blameOut.Stats.TotalLines

\* Blaming is running: the workers have been started and the coordinator has
\* not left the loop over the results
Blaming == pc \in {"distribute", "drain"}

\* C37: while Blaming runs, a step of a worker or of the goroutine that
\* closes the results leaves the dataset and everything but the channels
\* alone, and what a worker sends is the blame of its path, whatever the
\* dataset holds; the dataset changes only when the coordinator takes a
\* result off the channel, and then only in the Files entry of that path.
C37_OnlyTheCoordinatorTouchesTheDataset ==
  [][Blaming =>
       /\ (wpc' # wpc \/ (closer = "waiting" /\ closer' # closer)) =>
            /\ Data' = Data /\ cache' = cache
            /\ UNCHANGED <<pc, result, commits, ci, trace>>
       /\ (Len(results') > Len(results)) =>
            LET r == results'[Len(results')]
            IN [Stats |-> r.Stats, Err |-> r.Err]
                 \in BlameOutcomes[r.Path][PathKind(r.Path)]
       /\ Data' # Data =>
            /\ pc = "drain" /\ results # << >> /\ results' = Tail(results)
            /\ wpc' = wpc /\ UNCHANGED <<closer, jobs, wg>>
            /\ Data'.Contributors = Data.Contributors
            /\ Data'.History = Data.History
            /\ Data'.Metadata = Data.Metadata
            /\ \A p \in (DOMAIN Data.Files) \cup (DOMAIN Data'.Files) :
                 p # Head(results).Path =>
                   /\ p \in DOMAIN Data.Files /\ p \in DOMAIN Data'.Files
                   /\ Data'.Files[p] = Data.Files[p]]_vars

C37_Witness ==
  /\ pc = "drain" /\ numFiles = 2 /\ numCPU = 2
  /\ DOMAIN Data.Files = {2}
  /\ \E w \in Workers : wpc[w] = "send" /\ wjob[w] = 1
  /\ \E w \in Workers : wpc[w] = "exited"

\* contributor entry c without its ActiveLines
WithoutActiveLines(c) == [c EXCEPT !.ActiveLines = 0]

\* C38: Reducing changes nothing but ActiveLines: the same contributor
\* entries with the same identities, commit counts, insertions and
\* deletions, the same Files and History. Walking and Blaming leave the
\* ActiveLines of every entry as it is and create entries with ActiveLines
\* 0, so during the first Collect of a collector that found nothing to load
\* every ActiveLines is 0 until Reducing has run.
C38_OnlyReducingWritesActiveLines ==
  /\ [][/\ (pc = "reduce" /\ pc' # pc) =>
            (/\ Data'.Files = Data.Files /\ Data'.History = Data.History
             /\ Data'.Metadata = Data.Metadata
             /\ DOMAIN Data'.Contributors = DOMAIN Data.Contributors
             /\ \A n \in DOMAIN Data.Contributors :
                  WithoutActiveLines(Data'.Contributors[n])
                    = WithoutActiveLines(Data.Contributors[n]))
        /\ (pc \in {"walk", "commits", "blame", "distribute", "drain"}) =>
            (/\ DOMAIN Data.Contributors \subseteq DOMAIN Data'.Contributors
             /\ \A n \in DOMAIN Data'.Contributors :
                  Data'.Contributors[n].ActiveLines =
                    IF n \in DOMAIN Data.Contributors
                    THEN Data.Contributors[n].ActiveLines ELSE 0)]_vars
  /\ []((/\ collects = 1 /\ lookup \in {"absent", "loadfail", "invalid"}
         /\ pc \in {"meta", "walk", "commits", "blame", "distribute", "drain", "reduce"}) =>
           \A n \in DOMAIN Data.Contributors : Data.Contributors[n].ActiveLines = 0)

C38_Witness ==
  /\ pc = "save" /\ collects = 1 /\ head = 2 /\ numFiles = 1 /\ badFiles = {}
  /\ Len(Data.History) = 2 /\ DOMAIN Data.Files = {1}
  /\ Data.Contributors[<<"a">>].ActiveLines = 2
  /\ Data.Contributors[<<"a">>].CommitCount = 1
  /\ Data.Contributors[<<"b">>].ActiveLines = 0

\* ------------------------------------------- Truncate on its own
MaxStr == 4        \* longest string and largest length handed to Truncate

\* the string of TestHTMLReportAdapter_TemplateFunctions
TestString ==
  <<"T", "h", "i", "s", " ", "i", "s", " ", "a", " ", "l", "o", "n", "g", " ",
    "s", "t", "r", "i", "n", "g">>
TestEnd == <<".", ".", ".">>
TestArguments == [s |-> TestString, length |-> 10, killwords |-> FALSE, end |-> TestEnd]

Strings == UNION {[1..n -> {"a", " "}] : n \in 0..MaxStr}

TruncInit ==
  /\ CollectorIdle
  /\ parents = << >> /\ frontier = {} /\ log = << >>
  /\ commit = NoCommit /\ stats = NoStats /\ paths = NoPaths
  /\ blameIn = << >> /\ blameOut = NotBlamed
  /\ truncIn \in {TestArguments} \cup
       [s : Strings, length : 0..MaxStr, killwords : BOOLEAN,
        end : {<< >>, <<".">>, TestEnd}]
  /\ truncOut = NotCalled

CallTruncate ==
  /\ truncOut = NotCalled
  /\ truncOut' = Truncate(truncIn.s, truncIn.length, truncIn.killwords, truncIn.end)
  /\ UNCHANGED <<repoVars, runVars, chanVars, walkVars, treeVars, blameVars, truncIn>>

TruncNext == CallTruncate

TruncSpec == TruncInit /\ [][TruncNext]_vars

EndsWith(s, e) ==
  Len(e) <= Len(s) /\ SubSeq(s, Len(s) - Len(e) + 1, Len(s)) = e

\* C39: Truncate never fails; it returns s when s has at most length
\* characters, and otherwise a string of at most length characters that
\* ends with end: "This is..." for the string of the test.
C39_TruncateFitsTheLength ==
  truncOut # NotCalled =>
    /\ ~truncOut.panic
    /\ Len(truncIn.s) <= truncIn.length => truncOut.str = truncIn.s
    /\ Len(truncIn.s) > truncIn.length =>
         /\ Len(truncOut.str) <= truncIn.length
         /\ EndsWith(truncOut.str, truncIn.end)
    /\ truncIn = TestArguments =>
         truncOut.str = <<"T", "h", "i", "s", " ", "i", "s", ".", ".", ".">>

====
